---- MODULE Spec2Model ----
(***************************************************************************)
(* Espejo: encrypted multi-device synchronisation.                         *)
(*                                                                         *)
(* The model covers the sync client (lib/sync.ts: sync, syncEntry and the  *)
(* record codec), the local store operations it works on (lib/entries.ts,  *)
(* lib/reviews.ts) and the remote operations of supabase/schema.sql        *)
(* (sync_entries, sync_reviews, sync_single_entry).                        *)
(*                                                                         *)
(* One device of the user is modelled in full, after setupSync has enabled *)
(* sync on it and with the passphrase in the session.  The other devices   *)
(* of the user appear as another client that calls the remote operations   *)
(* with records of its own.  The device has its clock (Date.now()) and the *)
(* server has its own (NOW()); the clocks run independently of each other, *)
(* each of them never backwards.                                           *)
(*                                                                         *)
(* All entries of the model are entries of one day (createOrUpdateEntry    *)
(* only ever looks up today's entry), so the date field is left out.       *)
(***************************************************************************)
EXTENDS Naturals, FiniteSets, Sequences, TLC

\* ----- bounds of the model -----
\* Clocks run from 1 to MaxTime (milliseconds).
MaxTime == 2
\* At most MaxOps operations (local writes, sync() and syncEntry()
\* invocations, calls of another client) are started in one behaviour.
MaxOps == 4

Devices == {"A"}
EntryIds == {"e1"}
ReviewIds == {"r1"}
\* The ids of the entries an answer of the remote service may carry.
RemoteIds == {"e1", "e2"}

\* The passphrase of the user (every device of the user holds it), and a
\* key that is not the passphrase (a record of foreign or corrupted content).
Passphrase == "pw"
OtherKey == "other"

Times == 1..MaxTime

VARIABLES
  clk,        \* clk[d]: Date.now() on device d
  srvClk,     \* NOW() on the server, in whole milliseconds
  entries,    \* entries[d]: db.entries of device d, id -> Entry
  reviews,    \* reviews[d]: db.reviews of device d, id -> Review
  lastSyncAt, \* lastSyncAt[d]: SyncConfig.lastSyncAt in localStorage
  srvEntries, \* table encrypted_entries of the user, id -> row
  srvReviews, \* table encrypted_reviews of the user, id -> row
  usedIds,    \* identifiers generateId() has handed out or a caller has sent
  pc,         \* pc[d]: where the sync() invocation of device d stands
  inflight,   \* inflight[d]: the locals of that invocation
  deletedHere,\* deletedHere[d][id]: history of deleteEntry on d
  touched,    \* touched[d]: a local write happened while sync() was running
  ops,        \* operations started so far (bounded by MaxOps)
  \* the remote service with its users (AuthSpec)
  users,      \* table sync_users, user_hash -> row
  tblEntries, \* table encrypted_entries of all users, id -> row
  tblReviews, \* table encrypted_reviews of all users, id -> row
  memUsers,   \* global.syncUsers of the API routes, userId -> user
  memData,    \* global.syncData of the API routes, userId -> records
  reply,      \* the answer to the last request
  \* the sync client with its configuration and session (ClientSpec)
  config,     \* config[d]: localStorage espejo_sync_config
  session,    \* session[d]: sessionStorage espejo_sync_password
  wire,       \* the requests sent and not yet answered
  call,       \* call[d]: the invocation in progress on d and its locals
  result,     \* result[d]: what the last finished invocation returned
  supabase,   \* getSupabase() returns a client (the build has URL and key)
  \* the payloads of lib/crypto and the files of lib/export
  envelope,   \* the EncryptedPayload at hand
  bundle,     \* the file an export returned
  report,     \* what the last decrypt(), decoding, export or import did
  codec,      \* the record handed to the codec and its wire record
  issued      \* the payloads encrypt() has returned so far

syncVars == <<clk, srvClk, entries, reviews, lastSyncAt, srvEntries,
              srvReviews, usedIds, pc, inflight, deletedHere, touched, ops>>
authVars == <<users, tblEntries, tblReviews, memUsers, memData, reply>>
clientVars == <<config, session, wire, call, result, supabase>>
fileVars == <<envelope, bundle, report, codec, issued>>

vars == <<syncVars, authVars, clientVars, fileVars>>

\* ----- keyed stores (Dexie tables, SQL tables of one user) -----
Has(store, id) == id \in DOMAIN store
Put(store, id, rec) == [k \in DOMAIN store \cup {id} |->
                          IF k = id THEN rec ELSE store[k]]
Delete(store, id) == [k \in DOMAIN store \ {id} |-> store[k]]
Empty == [k \in {} |-> 0]

\* ----- crypto, as far as the protocol sees it -----
\* encrypt(plaintext, password): the payload opens only with the password
\* it was made with.
encrypt(plain, password) == [key |-> password, plain |-> plain]
CanDecrypt(payload, password) == payload.key = password
decrypt(payload, password) == payload.plain


\* ----- Encrypted Record Codec (lib/sync.ts) -----
\* An Entry is [updatedAt, content]; content stands for the sensitive fields
\* and names who wrote this version.  The wire record of the codec carries no
\* "deleted" field.
\* A variant to try the properties against: updatedAt is the time of sending.
encryptEntryForSync_SendTime(id, entry, password) ==
  [id |-> id,
   data |-> encrypt([content |-> entry.content], password),
   updatedAt |-> clk[CHOOSE d \in Devices : TRUE]]

encryptEntryForSync(id, entry, password) ==
  [id |-> id,
   data |-> encrypt([content |-> entry.content], password),
   updatedAt |-> entry.updatedAt]

decryptEntryFromSync(encrypted, password) ==
  [updatedAt |-> encrypted.updatedAt,
   content |-> decrypt(encrypted.data, password).content]

\* A Review is [createdAt]; its wire record carries createdAt as updatedAt.
encryptReviewForSync(id, review, password) ==
  [id |-> id,
   data |-> encrypt([createdAt |-> review.createdAt], password),
   updatedAt |-> review.createdAt]

decryptReviewFromSync(encrypted, password) ==
  [createdAt |-> decrypt(encrypted.data, password).createdAt]

\* ----- Remote Sync Service (supabase/schema.sql) -----
\* COALESCE((v_entry->>'deleted')::BOOLEAN, false)
CoalesceDeleted(rec) == IF "deleted" \in DOMAIN rec THEN rec.deleted ELSE FALSE

RowOf(rec) == [updatedAt |-> rec.updatedAt,
               deleted |-> CoalesceDeleted(rec),
               data |-> rec.data]

\* A variant to try the properties against: a tie goes to the incoming row.
Found_OrEqual(table, rec) ==
  ~Has(table, rec.id) \/ table[rec.id].updatedAt <= rec.updatedAt

\* INSERT ... ON CONFLICT (user_id, id) DO UPDATE ...
\*   WHERE <table>.updated_at < EXCLUDED.updated_at : FOUND
Found(table, rec) ==
  ~Has(table, rec.id) \/ table[rec.id].updatedAt < rec.updatedAt

Upsert(table, rec) ==
  IF Found(table, rec) THEN Put(table, rec.id, RowOf(rec)) ELSE table

\* The FOR loop over the submitted array; the ids of one array differ.
RECURSIVE UpsertAll(_, _)
UpsertAll(table, batch) ==
  IF batch = {} THEN table
  ELSE LET rec == CHOOSE r \in batch : TRUE
       IN UpsertAll(Upsert(table, rec), batch \ {rec})

\* v_pushed: the rows of the loop that were inserted or updated.
Pushed(table, batch) == Cardinality({rec \in batch : Found(table, rec)})

\* SELECT ... WHERE user_id = v_user_id AND updated_at > p_last_sync_at
Delta(table, cursor) ==
  [id \in {k \in DOMAIN table : table[k].updatedAt > cursor} |->
     [id |-> id,
      data |-> table[id].data,
      updatedAt |-> table[id].updatedAt,
      deleted |-> table[id].deleted]]

\* 'serverTime', EXTRACT(EPOCH FROM NOW()) * 1000: milliseconds with a
\* fraction (NOW() has microsecond resolution); frac is the fraction in
\* halves of a millisecond.
Fracs == {0, 1}
ServerTimes == [ms : Times, frac : Fracs]

\* Math.floor(serverTime)
Floor(t) == t.ms
\* serverTime || Date.now(): a number is falsy only when it is 0.
Truthy(t) == ~(t.ms = 0 /\ t.frac = 0)

\* ----- merge rule of sync() (lib/sync.ts) -----
\* Variants of the comparison, to try the properties against: the remote
\* record is taken only when there is no local one; a tie goes to the remote.
RemoteWins_OnlyNew(store, id, remoteAt) == ~Has(store, id)
RemoteWins_OnTie(store, id, remoteAt) ==
  ~Has(store, id) \/ remoteAt >= store[id].updatedAt

\* !local || decrypted.updatedAt > local.updatedAt
RemoteWins(store, id, remoteAt) ==
  ~Has(store, id) \/ remoteAt > store[id].updatedAt

\* local && decrypted.updatedAt < local.updatedAt
LocalNewer(store, id, remoteAt) ==
  Has(store, id) /\ remoteAt < store[id].updatedAt

\* A variant to try the properties against: a tombstone removes the local
\* entry if there is one and is stored as an entry if there is none.
ApplyRemoteEntry_Toggle(store, enc, password) ==
  IF ~CanDecrypt(enc.data, password) THEN store
  ELSE IF enc.deleted /\ Has(store, enc.id) THEN Delete(store, enc.id)
  ELSE IF RemoteWins_OnlyNew(store, enc.id, enc.updatedAt)
       THEN Put(store, enc.id, decryptEntryFromSync(enc, password))
       ELSE store

\* A variant to try the properties against: a record that does not decrypt
\* removes the local entry of its id.
ApplyRemoteEntry_DropUnreadable(store, enc, password) ==
  IF ~CanDecrypt(enc.data, password) THEN Delete(store, enc.id)
  ELSE IF RemoteWins(store, enc.id, enc.updatedAt)
       THEN IF enc.deleted THEN Delete(store, enc.id)
            ELSE Put(store, enc.id, decryptEntryFromSync(enc, password))
       ELSE store

\* One iteration of the loop over entriesResult.entries: the store after it.
\* A record that does not decrypt throws inside the try and is skipped.
ApplyRemoteEntry(store, enc, password) ==
  IF ~CanDecrypt(enc.data, password) THEN store
  ELSE LET decrypted == decryptEntryFromSync(enc, password)
       IN IF RemoteWins(store, enc.id, decrypted.updatedAt)
          THEN IF enc.deleted THEN Delete(store, enc.id)
               ELSE Put(store, enc.id, decrypted)
          ELSE store

\* totalPulled++ of that iteration
EntryPulled(store, enc, password) ==
  IF CanDecrypt(enc.data, password)
     /\ RemoteWins(store, enc.id, enc.updatedAt) THEN 1 ELSE 0

\* conflicts++ of that iteration
EntryConflict(store, enc, password) ==
  IF CanDecrypt(enc.data, password)
     /\ ~RemoteWins(store, enc.id, enc.updatedAt)
     /\ LocalNewer(store, enc.id, enc.updatedAt) THEN 1 ELSE 0

\* if (!local && !encReview.deleted)
ReviewAccepted(store, enc, password) ==
  CanDecrypt(enc.data, password) /\ ~Has(store, enc.id) /\ ~enc.deleted

\* One iteration of the loop over reviewsResult.reviews.
ApplyRemoteReview(store, enc, password) ==
  IF ReviewAccepted(store, enc, password)
  THEN Put(store, enc.id, decryptReviewFromSync(enc, password))
  ELSE store

\* The whole loop over a returned array (resp: id -> wire record).
RECURSIVE MergeEntries(_, _, _)
MergeEntries(store, resp, password) ==
  IF DOMAIN resp = {} THEN store
  ELSE LET id == CHOOSE k \in DOMAIN resp : TRUE
       IN MergeEntries(ApplyRemoteEntry(store, resp[id], password),
                       Delete(resp, id), password)

RECURSIVE MergeReviews(_, _, _)
MergeReviews(store, resp, password) ==
  IF DOMAIN resp = {} THEN store
  ELSE LET id == CHOOSE k \in DOMAIN resp : TRUE
       IN MergeReviews(ApplyRemoteReview(store, resp[id], password),
                       Delete(resp, id), password)

\* ----- the locals of one sync() invocation -----
NoTime == [ms |-> 0, frac |-> 0]
Idle == [cursor |-> 0, resp |-> Empty, serverTime |-> NoTime,
         pushed |-> 0, pulled |-> 0, conflicts |-> 0, reviewsOk |-> FALSE]

\* A variant to try the properties against: no local entry is collected.
LocalEntriesAbove_None(store, cursor) == {}

\* db.entries.where("updatedAt").above(config.lastSyncAt)
LocalEntriesAbove(store, cursor) ==
  {id \in DOMAIN store : store[id].updatedAt > cursor}

\* db.reviews.filter(r => r.createdAt > config.lastSyncAt)
LocalReviewsAbove(store, cursor) ==
  {id \in DOMAIN store : store[id].createdAt > cursor}

\* No answer yet, no stored configuration (getSyncConfig() returns null), no
\* session passphrase (getSyncPassword() returns null), no invocation in
\* progress, nothing returned yet.
NoReply == [op |-> "none"]
NoConfig == Empty
NoPassword == ""
NoCall == [op |-> "none"]
NoResult == [op |-> "none"]
NoPayload == [version |-> 0]
NoBundle == [format |-> "none"]
NoReport == [op |-> "none"]
NoCodec == [op |-> "none"]

\* The state when the application starts on a device that never synchronised,
\* against a service whose table sync_users holds the given rows (none in
\* Start).  Spec takes the configuration as given
\* (sync enabled, the passphrase in the session) and keeps its lastSyncAt in
\* the variable of that name.
Installed(available, now, rows) ==
  /\ clk = [d \in Devices |-> now]
  /\ srvClk = 1
  /\ entries = [d \in Devices |-> Empty]
  /\ reviews = [d \in Devices |-> Empty]
  /\ lastSyncAt = [d \in Devices |-> 0]
  /\ srvEntries = Empty
  /\ srvReviews = Empty
  /\ usedIds = {}
  /\ pc = [d \in Devices |-> "idle"]
  /\ inflight = [d \in Devices |-> Idle]
  /\ deletedHere = [d \in Devices |-> {}]
  /\ touched = [d \in Devices |-> FALSE]
  /\ ops = 0
  /\ users = rows
  /\ tblEntries = Empty
  /\ tblReviews = Empty
  /\ memUsers = Empty
  /\ memData = Empty
  /\ reply = NoReply
  /\ config = [d \in Devices |-> NoConfig]
  /\ session = [d \in Devices |-> NoPassword]
  /\ wire = {}
  /\ call = [d \in Devices |-> NoCall]
  /\ result = [d \in Devices |-> NoResult]
  /\ supabase = available
  /\ envelope = NoPayload
  /\ bundle = NoBundle
  /\ report = NoReport
  /\ codec = NoCodec
  /\ issued = {}

Start(available, now) == Installed(available, now, Empty)

Init == Start(TRUE, 1)

\* One more operation may start.
StartOp == ops < MaxOps /\ ops' = ops + 1

\* ----- clocks -----
Tick(d) ==
  /\ clk[d] < MaxTime
  /\ clk' = [clk EXCEPT ![d] = @ + 1]
  /\ UNCHANGED <<authVars, clientVars, fileVars, srvClk, entries, reviews, lastSyncAt, srvEntries, srvReviews,
                 usedIds, pc, inflight, deletedHere, touched, ops>>

ServerTick ==
  /\ srvClk < MaxTime
  /\ srvClk' = srvClk + 1
  /\ UNCHANGED <<authVars, clientVars, fileVars, clk, entries, reviews, lastSyncAt, srvEntries, srvReviews,
                 usedIds, pc, inflight, deletedHere, touched, ops>>

\* ----- local store operations (lib/entries.ts, lib/reviews.ts) -----
\* A local write while sync() is running on the device.
Touch(d) == [touched EXCEPT ![d] = (pc[d] # "idle")]

\* getEntryByDate: db.entries.where("date").equals(date).first(); entries of
\* one date come in the order of their primary key.
IdRank == [id \in EntryIds \cup RemoteIds |-> IF id = "e1" THEN 1 ELSE 2]
getEntryByDate(store) ==
  CHOOSE id \in DOMAIN store : \A k \in DOMAIN store : IdRank[id] <= IdRank[k]

\* createOrUpdateEntry, today's entry exists: put with updatedAt = Date.now().
UpdateEntry(d) ==
  /\ StartOp
  /\ DOMAIN entries[d] # {}
  /\ entries' = [entries EXCEPT ![d] =
                   Put(@, getEntryByDate(@), [updatedAt |-> clk[d], content |-> d])]
  /\ touched' = Touch(d)
  /\ UNCHANGED <<authVars, clientVars, fileVars, clk, srvClk, reviews, lastSyncAt, srvEntries, srvReviews,
                 usedIds, pc, inflight, deletedHere>>

\* createOrUpdateEntry, no entry of today: add with a fresh generateId().
CreateEntry(d, id) ==
  /\ StartOp
  /\ DOMAIN entries[d] = {}
  /\ id \in EntryIds \ usedIds
  /\ entries' = [entries EXCEPT ![d] =
                   Put(@, id, [updatedAt |-> clk[d], content |-> d])]
  /\ usedIds' = usedIds \cup {id}
  /\ touched' = Touch(d)
  /\ UNCHANGED <<authVars, clientVars, fileVars, clk, srvClk, reviews, lastSyncAt, srvEntries, srvReviews,
                 pc, inflight, deletedHere>>

\* deleteEntry: db.entries.delete(id), nothing else.
deleteEntry(d, id) ==
  /\ StartOp
  /\ Has(entries[d], id)
  /\ entries' = [entries EXCEPT ![d] = Delete(@, id)]
  /\ deletedHere' = [deletedHere EXCEPT ![d] =
                       IF Has(srvEntries, id) THEN @ \cup {id} ELSE @]
  /\ touched' = Touch(d)
  /\ UNCHANGED <<authVars, clientVars, fileVars, clk, srvClk, reviews, lastSyncAt, srvEntries, srvReviews,
                 usedIds, pc, inflight>>

\* saveReview: put a review with a fresh id and createdAt = Date.now().
saveReview(d, id) ==
  /\ StartOp
  /\ id \in ReviewIds \ usedIds
  /\ reviews' = [reviews EXCEPT ![d] = Put(@, id, [createdAt |-> clk[d]])]
  /\ usedIds' = usedIds \cup {id}
  /\ touched' = Touch(d)
  /\ UNCHANGED <<authVars, clientVars, fileVars, clk, srvClk, entries, lastSyncAt, srvEntries, srvReviews,
                 pc, inflight, deletedHere>>

\* ----- sync(): full synchronisation (lib/sync.ts) -----
\* sync() is modelled in three steps, one for each stretch of code that ends
\* with an answer of the server or with the return: the calls of the server
\* are where other operations of the device run in between.

\* The counts of one loop over the returned entries (the ids of one answer
\* differ, so each record meets the store as it was before the loop).
PulledCount(store, resp, password) ==
  Cardinality({id \in DOMAIN resp :
                 EntryPulled(store, resp[id], password) = 1})
ConflictCount(store, resp, password) ==
  Cardinality({id \in DOMAIN resp :
                 EntryConflict(store, resp[id], password) = 1})

EntryBatch(d, cursor) ==
  {encryptEntryForSync(id, entries[d][id], Passphrase) :
     id \in LocalEntriesAbove(entries[d], cursor)}
ReviewBatch(d, cursor) ==
  {encryptReviewForSync(id, reviews[d][id], Passphrase) :
     id \in LocalReviewsAbove(reviews[d], cursor)}

\* Step 1: collect the local entries above the cursor, encrypt them and call
\* sync_entries; the function runs on the server in one transaction and
\* answers with the delta above the cursor and with its clock.
SyncEntries(d) ==
  /\ StartOp
  /\ pc[d] = "idle"
  /\ LET cursor == lastSyncAt[d]
         batch == EntryBatch(d, cursor)
         table == UpsertAll(srvEntries, batch)
     IN \E frac \in Fracs :
          /\ srvEntries' = table
          /\ inflight' = [inflight EXCEPT ![d] =
               [Idle EXCEPT !.cursor = cursor,
                            !.resp = Delta(table, cursor),
                            !.serverTime = [ms |-> srvClk, frac |-> frac],
                            !.pushed = Pushed(srvEntries, batch)]]
  /\ pc' = [pc EXCEPT ![d] = "entries"]
  /\ touched' = [touched EXCEPT ![d] = FALSE]
  /\ UNCHANGED <<authVars, clientVars, fileVars, clk, srvClk, entries, reviews, lastSyncAt, srvReviews,
                 usedIds, deletedHere>>

\* entriesError, or an answer without success: sync() returns a failure
\* with counts zeroed.  The request may have reached the server before the
\* answer was lost.
SyncEntriesFail(d) ==
  /\ StartOp
  /\ pc[d] = "idle"
  /\ \E applied \in BOOLEAN :
       srvEntries' = IF applied
                     THEN UpsertAll(srvEntries, EntryBatch(d, lastSyncAt[d]))
                     ELSE srvEntries
  /\ UNCHANGED <<authVars, clientVars, fileVars, clk, srvClk, entries, reviews, lastSyncAt, srvReviews,
                 usedIds, pc, inflight, deletedHere, touched>>

\* Step 2: merge the returned entries, then collect the local reviews above
\* the cursor and call sync_reviews.
SyncReviews(d) ==
  /\ pc[d] = "entries"
  /\ LET cursor == inflight[d].cursor
         resp == inflight[d].resp
         batch == ReviewBatch(d, cursor)
         table == UpsertAll(srvReviews, batch)
     IN /\ entries' = [entries EXCEPT ![d] = MergeEntries(@, resp, Passphrase)]
        /\ srvReviews' = table
        /\ inflight' = [inflight EXCEPT
             ![d].resp = Delta(table, cursor),
             ![d].pushed = @ + Pushed(srvReviews, batch),
             ![d].pulled = @ + PulledCount(entries[d], resp, Passphrase),
             ![d].conflicts = @ + ConflictCount(entries[d], resp, Passphrase),
             ![d].reviewsOk = TRUE]
  /\ pc' = [pc EXCEPT ![d] = "reviews"]
  /\ UNCHANGED <<authVars, clientVars, fileVars, clk, srvClk, reviews, lastSyncAt, srvEntries, usedIds,
                 deletedHere, touched, ops>>

\* Step 2 with reviewsError, or an answer without success: the reviews block
\* is skipped and sync() goes on.
SyncReviewsFail(d) ==
  /\ pc[d] = "entries"
  /\ LET resp == inflight[d].resp
     IN /\ entries' = [entries EXCEPT ![d] = MergeEntries(@, resp, Passphrase)]
        /\ inflight' = [inflight EXCEPT
             ![d].resp = Empty,
             ![d].pulled = @ + PulledCount(entries[d], resp, Passphrase),
             ![d].conflicts = @ + ConflictCount(entries[d], resp, Passphrase)]
  /\ \E applied \in BOOLEAN :
       srvReviews' = IF applied
                     THEN UpsertAll(srvReviews,
                                    ReviewBatch(d, inflight[d].cursor))
                     ELSE srvReviews
  /\ pc' = [pc EXCEPT ![d] = "reviews"]
  /\ UNCHANGED <<authVars, clientVars, fileVars, clk, srvClk, reviews, lastSyncAt, srvEntries, usedIds,
                 deletedHere, touched, ops>>

\* A variant to try the properties against: the cursor is the device's clock.
NewCursor_Now(serverTime, now) == now

\* config.lastSyncAt = Math.floor(entriesResult.serverTime || Date.now())
NewCursor(serverTime, now) ==
  IF Truthy(serverTime) THEN Floor(serverTime) ELSE now

\* Step 3: merge the returned reviews, saveSyncConfig(config) and
\* return { success: true, ... }.
SyncFinish(d) ==
  /\ pc[d] = "reviews"
  /\ reviews' = [reviews EXCEPT ![d] =
                   MergeReviews(@, inflight[d].resp, Passphrase)]
  /\ lastSyncAt' = [lastSyncAt EXCEPT ![d] =
                      NewCursor(inflight[d].serverTime, clk[d])]
  /\ pc' = [pc EXCEPT ![d] = "idle"]
  /\ inflight' = [inflight EXCEPT ![d] = Idle]
  /\ touched' = [touched EXCEPT ![d] = FALSE]
  /\ UNCHANGED <<authVars, clientVars, fileVars, clk, srvClk, entries, srvEntries, srvReviews, usedIds,
                 deletedHere, ops>>

\* An exception outside the per-record try blocks (catch: a failure with
\* counts zeroed), or the invocation abandoned by the caller while it waits
\* for the server.
SyncThrow(d) ==
  /\ pc[d] \in {"entries", "reviews"}
  /\ pc' = [pc EXCEPT ![d] = "idle"]
  /\ inflight' = [inflight EXCEPT ![d] = Idle]
  /\ touched' = [touched EXCEPT ![d] = FALSE]
  /\ UNCHANGED <<authVars, clientVars, fileVars, clk, srvClk, entries, reviews, lastSyncAt, srvEntries,
                 srvReviews, usedIds, deletedHere, ops>>

\* ----- syncEntry(): single-record fast path (lib/sync.ts) -----
\* Encrypt the entry and call sync_single_entry; on data.success the cursor
\* becomes Date.now().
syncEntryOk(d, id) ==
  /\ StartOp
  /\ Has(entries[d], id)
  /\ srvEntries' = Upsert(srvEntries,
                          encryptEntryForSync(id, entries[d][id], Passphrase))
  /\ lastSyncAt' = [lastSyncAt EXCEPT ![d] = clk[d]]
  /\ UNCHANGED <<authVars, clientVars, fileVars, clk, srvClk, entries, reviews, srvReviews, usedIds, pc,
                 inflight, deletedHere, touched>>

\* error, or an answer without success: nothing changes on the device.  The
\* request may have reached the server before the answer was lost.
syncEntryFail(d, id) ==
  /\ StartOp
  /\ Has(entries[d], id)
  /\ \E applied \in BOOLEAN :
       srvEntries' = IF applied
                     THEN Upsert(srvEntries,
                            encryptEntryForSync(id, entries[d][id], Passphrase))
                     ELSE srvEntries
  /\ UNCHANGED <<authVars, clientVars, fileVars, clk, srvClk, entries, reviews, lastSyncAt, srvReviews,
                 usedIds, pc, inflight, deletedHere, touched>>

\* ----- the remote operations called by another client of the user -----
\* The ids the other client can send: one that its generateId() makes, or one
\* of a row that the server holds.
KnownOrFresh(table, id) == id \notin usedIds \/ Has(table, id)

\* sync_single_entry with any p_entry: the wire format has "deleted".
DirectEntry(id, t, deleted, key) ==
  [id |-> id,
   data |-> encrypt([content |-> "X"], key),
   updatedAt |-> t,
   deleted |-> deleted]

sync_single_entry(id, t, deleted, key) ==
  /\ StartOp
  /\ KnownOrFresh(srvEntries, id)
  /\ srvEntries' = Upsert(srvEntries, DirectEntry(id, t, deleted, key))
  /\ usedIds' = usedIds \cup {id}
  /\ UNCHANGED <<authVars, clientVars, fileVars, clk, srvClk, entries, reviews, lastSyncAt, srvReviews, pc,
                 inflight, deletedHere, touched>>

\* sync_reviews with any one-element p_reviews (the answer is not used).
DirectReview(id, t, deleted, key) ==
  [id |-> id,
   data |-> encrypt([createdAt |-> t], key),
   updatedAt |-> t,
   deleted |-> deleted]

sync_reviews(id, t, deleted, key) ==
  /\ StartOp
  /\ KnownOrFresh(srvReviews, id)
  /\ srvReviews' = UpsertAll(srvReviews, {DirectReview(id, t, deleted, key)})
  /\ usedIds' = usedIds \cup {id}
  /\ UNCHANGED <<authVars, clientVars, fileVars, clk, srvClk, entries, reviews, lastSyncAt, srvEntries, pc,
                 inflight, deletedHere, touched>>

\* What the other client sends: a record of the user, a tombstone of the
\* user, or a record that the passphrase does not open.
DirectKinds == {[deleted |-> FALSE, key |-> Passphrase],
                [deleted |-> TRUE, key |-> Passphrase],
                [deleted |-> FALSE, key |-> OtherKey]}

Next ==
  \/ \E d \in Devices : Tick(d)
  \/ ServerTick
  \/ \E d \in Devices : UpdateEntry(d)
  \/ \E d \in Devices, id \in EntryIds : CreateEntry(d, id)
  \/ \E d \in Devices, id \in EntryIds : deleteEntry(d, id)
  \/ \E d \in Devices, id \in ReviewIds : saveReview(d, id)
  \/ \E d \in Devices : SyncEntries(d)
  \/ \E d \in Devices : SyncEntriesFail(d)
  \/ \E d \in Devices : SyncReviews(d)
  \/ \E d \in Devices : SyncReviewsFail(d)
  \/ \E d \in Devices : SyncFinish(d)
  \/ \E d \in Devices : SyncThrow(d)
  \/ \E d \in Devices, id \in EntryIds : syncEntryOk(d, id)
  \/ \E d \in Devices, id \in EntryIds : syncEntryFail(d, id)
  \/ \E id \in EntryIds, t \in Times, k \in DirectKinds :
       sync_single_entry(id, t, k.deleted, k.key)
  \/ \E id \in ReviewIds, t \in Times, k \in DirectKinds :
       sync_reviews(id, t, k.deleted, k.key)

Spec == Init /\ [][Next]_vars

\* ----- the remote service and its users (supabase/schema.sql) -----
\* Any caller may invoke the operations of the service with any arguments.
Emails == {"ana", "bea"}
Passwords == {Passphrase, OtherKey}

\* hashPassword(password): SHA-256 of the salted password; different inputs
\* give different hashes, and a hash is not its input.  A value that goes
\* through the hash is written as its text and the times it was hashed.
Text(string) == [of |-> string, times |-> 0]
hashPassword(value) == [of |-> value.of, times |-> value.times + 1]

\* userHash = hashPassword(email.toLowerCase().trim())
UserHashes == {hashPassword(Text(email)) : email \in Emails}
\* verificationToken = hashPassword(passwordHash)
verificationToken(password) == hashPassword(hashPassword(Text(password)))
Tokens == {verificationToken(password) : password \in Passwords}

\* failed_attempts >= 4 at a wrong token locks the account for 15 minutes;
\* the clock of the model ticks once in that time.
MaxAttempts == 4
LockPeriod == 1
\* locked_until IS NULL
NoLock == 0

\* The requests the callers send.  A pushed record names, in its content, the
\* user it was pushed as.
Cursors == {0, 1}
PushRec(userHash, id, t) ==
  [id |-> id,
   data |-> encrypt([content |-> userHash], Passphrase),
   updatedAt |-> t]
Batches(userHash, ids) ==
  {{}} \cup {{PushRec(userHash, id, t)} : id \in ids, t \in Times}

\* The variables the remote service leaves alone.
syncRest == <<clk, srvClk, entries, reviews, lastSyncAt, srvEntries,
              srvReviews, usedIds, pc, inflight, deletedHere, touched>>

\* What a call answers: a JSON object, or an exception of the database
\* (raised: the transaction of the call is rolled back).
Answers(request, success, error) ==
  [request |-> request, success |-> success, error |-> error,
   raised |-> FALSE, records |-> Empty, synced |-> FALSE, is_new |-> FALSE]
Raises(request, error) ==
  [request |-> request, success |-> FALSE, error |-> error,
   raised |-> TRUE, records |-> Empty, synced |-> FALSE, is_new |-> FALSE]

\* v_locked_until IS NOT NULL AND v_locked_until > NOW()
Locked(user) == user.locked # NoLock /\ user.locked > srvClk

\* A variant to try the properties against: the lock one attempt earlier.
Failed_OneEarlier(userHash) ==
  [users EXCEPT ![userHash].failed = @ + 1,
                ![userHash].locked =
                   IF users[userHash].failed >= MaxAttempts - 1
                   THEN srvClk + LockPeriod ELSE @]

\* A variant to try the properties against: the counter is reset, the
\* lock stays.
Passed_KeepsLock(userHash) == [users EXCEPT ![userHash].failed = 0]

\* UPDATE sync_users SET failed_attempts = failed_attempts + 1,
\*   locked_until = CASE WHEN failed_attempts >= 4 THEN NOW() + 15 minutes ...
Failed(userHash) ==
  [users EXCEPT ![userHash].failed = @ + 1,
                ![userHash].locked =
                   IF users[userHash].failed >= MaxAttempts
                   THEN srvClk + LockPeriod ELSE @]
\* UPDATE sync_users SET failed_attempts = 0, locked_until = NULL ...
Passed(userHash) ==
  [users EXCEPT ![userHash].failed = 0, ![userHash].locked = NoLock]

\* verify_user_credentials(p_user_hash, p_verification_token): the user id
\* (valid) or NULL, the rows of sync_users afterwards, or an exception.
verify_user_credentials(userHash, token) ==
  IF ~Has(users, userHash)
  THEN [valid |-> FALSE, raised |-> FALSE, users |-> users,
        error |-> "INVALID_CREDENTIALS"]
  ELSE IF Locked(users[userHash])
  THEN [valid |-> FALSE, raised |-> TRUE, users |-> users,
        error |-> "ACCOUNT_LOCKED"]
  ELSE IF users[userHash].token # token
  THEN [valid |-> FALSE, raised |-> FALSE, users |-> Failed(userHash),
        error |-> "INVALID_CREDENTIALS"]
  ELSE [valid |-> TRUE, raised |-> FALSE, users |-> Passed(userHash),
        error |-> ""]

\* SELECT id INTO v_user_id FROM sync_users WHERE user_hash = p_user_hash
\* (the functions of three arguments, which take no token).
user_id_of(userHash) ==
  [valid |-> Has(users, userHash), raised |-> FALSE, users |-> users,
   error |-> IF Has(users, userHash) THEN "" ELSE "USER_NOT_FOUND"]

\* The rows of one user in a table of all users.
OfUser(table, user) ==
  [id \in {k \in DOMAIN table : table[k].user = user} |-> table[id]]

UserRow(user, rec) ==
  [user |-> user, updatedAt |-> rec.updatedAt,
   deleted |-> CoalesceDeleted(rec), data |-> rec.data]

\* id UUID PRIMARY KEY: an id held by another user makes the INSERT fail
\* (ON CONFLICT (user_id, id) handles only the rows of the same user).
PkViolation(table, user, batch) ==
  \E rec \in batch : Has(table, rec.id) /\ table[rec.id].user # user

\* A variant to try the properties against: the push that arrives last is
\* kept.
UserUpsert_LastArrival(table, user, rec) ==
  Put(table, rec.id, UserRow(user, rec))

UserUpsert(table, user, rec) ==
  IF Found(table, rec) THEN Put(table, rec.id, UserRow(user, rec)) ELSE table

RECURSIVE UserUpsertAll(_, _, _)
UserUpsertAll(table, user, batch) ==
  IF batch = {} THEN table
  ELSE LET rec == CHOOSE r \in batch : TRUE
       IN UserUpsertAll(UserUpsert(table, user, rec), user, batch \ {rec})

\* A variant to try the properties against: the delta of all users.
UserDelta_Everyone(table, user, cursor) == Delta(table, cursor)

\* SELECT ... WHERE user_id = v_user_id AND updated_at > p_last_sync_at
UserDelta(table, user, cursor) == Delta(OfUser(table, user), cursor)

\* The body of sync_entries and sync_reviews after the check of the caller:
\* the table afterwards and the answer.
BulkBody(request, table, user, batch, cursor) ==
  IF PkViolation(table, user, batch)
  THEN [table |-> table, reply |-> Raises(request, "unique_violation")]
  ELSE LET after == UserUpsertAll(table, user, batch)
       IN [table |-> after,
           reply |-> [Answers(request, TRUE, "") EXCEPT
                        !.records = UserDelta(after, user, cursor)]]

\* A variant to try the properties against: every acknowledged record is
\* reported as stored.
SingleBody_AlwaysSynced(request, table, user, rec) ==
  IF PkViolation(table, user, {rec})
  THEN [table |-> table, reply |-> Raises(request, "unique_violation")]
  ELSE [table |-> UserUpsert(table, user, rec),
        reply |-> [Answers(request, TRUE, "") EXCEPT !.synced = TRUE]]

\* The body of sync_single_entry: 'synced', FOUND.
SingleBody(request, table, user, rec) ==
  IF PkViolation(table, user, {rec})
  THEN [table |-> table, reply |-> Raises(request, "unique_violation")]
  ELSE [table |-> UserUpsert(table, user, rec),
        reply |-> [Answers(request, TRUE, "") EXCEPT
                     !.synced = Found(table, rec)]]

\* One call of a data operation: v is the outcome of the check of the caller,
\* b the outcome of the body.
DataCall(kind, request, v, b) ==
  /\ StartOp
  /\ IF v.raised
     THEN /\ reply' = Raises(request, v.error)
          /\ UNCHANGED <<users, tblEntries, tblReviews>>
     ELSE IF ~v.valid
     THEN /\ reply' = Answers(request, FALSE, v.error)
          /\ users' = v.users
          /\ UNCHANGED <<tblEntries, tblReviews>>
     ELSE IF b.reply.raised
     THEN /\ reply' = b.reply
          /\ UNCHANGED <<users, tblEntries, tblReviews>>
     ELSE /\ reply' = b.reply
          /\ users' = v.users
          /\ IF kind = "reviews"
             THEN tblReviews' = b.table /\ UNCHANGED tblEntries
             ELSE tblEntries' = b.table /\ UNCHANGED tblReviews
  /\ UNCHANGED <<syncRest, memUsers, memData, clientVars, fileVars>>

Request(op, userHash, token) ==
  [op |-> op, userHash |-> userHash, token |-> token, records |-> {}]
\* The request with the records it pushes.
Pushing(request, batch) == [request EXCEPT !.records = batch]
\* The functions of three arguments are called without a token.
NoToken == verificationToken("")

\* sync_entries(p_user_hash, p_verification_token, p_entries, p_last_sync_at)
sync_entries_token(userHash, token, batch, cursor) ==
  LET request == Pushing(Request("sync_entries_token", userHash, token), batch)
  IN DataCall("entries", request, verify_user_credentials(userHash, token),
              BulkBody(request, tblEntries, userHash, batch, cursor))

\* sync_reviews(p_user_hash, p_verification_token, p_reviews, p_last_sync_at)
sync_reviews_token(userHash, token, batch, cursor) ==
  LET request == Pushing(Request("sync_reviews_token", userHash, token), batch)
  IN DataCall("reviews", request, verify_user_credentials(userHash, token),
              BulkBody(request, tblReviews, userHash, batch, cursor))

\* sync_single_entry(p_user_hash, p_verification_token, p_entry)
sync_single_entry_token(userHash, token, rec) ==
  LET request == Pushing(Request("sync_single_entry_token", userHash, token), {rec})
  IN DataCall("entries", request, verify_user_credentials(userHash, token),
              SingleBody(request, tblEntries, userHash, rec))

\* sync_entries(p_user_hash, p_entries, p_last_sync_at), as sync() calls it
sync_entries(userHash, batch, cursor) ==
  LET request == Pushing(Request("sync_entries", userHash, NoToken), batch)
  IN DataCall("entries", request, user_id_of(userHash),
              BulkBody(request, tblEntries, userHash, batch, cursor))

\* sync_reviews(p_user_hash, p_reviews, p_last_sync_at), as sync() calls it
sync_reviews_of(userHash, batch, cursor) ==
  LET request == Pushing(Request("sync_reviews", userHash, NoToken), batch)
  IN DataCall("reviews", request, user_id_of(userHash),
              BulkBody(request, tblReviews, userHash, batch, cursor))

\* sync_single_entry(p_user_hash, p_entry), as syncEntry() calls it
sync_single_entry_of(userHash, rec) ==
  LET request == Pushing(Request("sync_single_entry", userHash, NoToken), {rec})
  IN DataCall("entries", request, user_id_of(userHash),
              SingleBody(request, tblEntries, userHash, rec))

\* A variant to try the properties against: the new row without the token
\* of the request.
NewUser_NoToken(token, deviceId) ==
  [token |-> NoToken, failed |-> 0, locked |-> NoLock, devices |-> {deviceId}]

\* INSERT INTO sync_users (user_hash, verification_token): the new row, with
\* the defaults of its columns and the rows of sync_devices of the user.
NewUser(token, deviceId) ==
  [token |-> token, failed |-> 0, locked |-> NoLock, devices |-> {deviceId}]

\* INSERT INTO sync_devices ... ON CONFLICT (user_id, device_id) DO UPDATE
Seen(rows, userHash, deviceId) ==
  [rows EXCEPT ![userHash].devices = @ \cup {deviceId}]

\* register_or_auth_user(p_user_hash, p_verification_token, p_device_id, ...)
register_or_auth_user(userHash, token, deviceId) ==
  LET request == Request("register_or_auth_user", userHash, token)
  IN
  /\ StartOp
  /\ IF ~Has(users, userHash)
     THEN /\ users' = Put(users, userHash, NewUser(token, deviceId))
          /\ reply' = [Answers(request, TRUE, "") EXCEPT !.is_new = TRUE]
     ELSE IF Locked(users[userHash])
     THEN /\ reply' = Answers(request, FALSE, "ACCOUNT_LOCKED")
          /\ UNCHANGED users
     ELSE IF users[userHash].token # token
     THEN /\ users' = Failed(userHash)
          /\ reply' = Answers(request, FALSE, "INVALID_CREDENTIALS")
     ELSE /\ users' = Seen(Passed(userHash), userHash, deviceId)
          /\ reply' = Answers(request, TRUE, "")
  /\ UNCHANGED <<syncRest, tblEntries, tblReviews, memUsers, memData,
                 clientVars, fileVars>>

\* ----- the API routes with their store in memory (app/api/sync) -----
\* global.syncData.get(userId), a new pair of maps if the user has none
UserData(userId) ==
  IF Has(memData, userId) THEN memData[userId]
  ELSE [entries |-> Empty, reviews |-> Empty]

\* A variant to try the properties against: the route keeps the last arrival.
MapSet_LastArrival(map, rec) == Put(map, rec.id, rec)

\* if (!existing || entry.updatedAt > existing.updatedAt) map.set(id, entry)
MapSet(map, rec) == IF Found(map, rec) THEN Put(map, rec.id, rec) ELSE map

RECURSIVE MapSetAll(_, _)
MapSetAll(map, batch) ==
  IF batch = {} THEN map
  ELSE LET rec == CHOOSE r \in batch : TRUE
       IN MapSetAll(MapSet(map, rec), batch \ {rec})

\* for (const entry of map.values()) if (entry.updatedAt > payload.lastSyncAt)
Newer(map, cursor) ==
  [id \in {k \in DOMAIN map : map[k].updatedAt > cursor} |-> map[id]]

\* POST /api/sync/register with body {userId, deviceId, verificationToken}
route_register(userId, token, deviceId) ==
  LET request == Request("route_register", userId, token)
  IN
  /\ StartOp
  /\ IF ~Has(memUsers, userId)
     THEN /\ memUsers' = Put(memUsers, userId,
                             [verificationToken |-> token,
                              devices |-> {deviceId}])
          /\ reply' = [Answers(request, TRUE, "") EXCEPT !.is_new = TRUE]
     ELSE IF memUsers[userId].verificationToken # token
     THEN /\ reply' = Answers(request, FALSE, "Credenciales invalidas")
          /\ UNCHANGED memUsers
     ELSE /\ memUsers' = [memUsers EXCEPT ![userId].devices = @ \cup {deviceId}]
          /\ reply' = Answers(request, TRUE, "")
  /\ UNCHANGED <<syncRest, users, tblEntries, tblReviews, memData,
                 clientVars, fileVars>>

\* POST /api/sync with headers X-User-Id, X-Device-Id and a SyncPayload
route_sync(userId, batch, reviewBatch, cursor) ==
  LET request == Pushing(Request("route_sync", userId, NoToken),
                        batch \cup reviewBatch)
      data == [entries |-> MapSetAll(UserData(userId).entries, batch),
               reviews |-> MapSetAll(UserData(userId).reviews, reviewBatch)]
  IN
  /\ StartOp
  /\ IF ~Has(memUsers, userId)
     THEN /\ reply' = Answers(request, FALSE, "Usuario no registrado")
          /\ UNCHANGED memData
     ELSE /\ memData' = Put(memData, userId, data)
          /\ reply' = [Answers(request, TRUE, "") EXCEPT
                         !.records = [entries |-> Newer(data.entries, cursor),
                                      reviews |-> Newer(data.reviews, cursor)]]
  /\ UNCHANGED <<syncRest, users, tblEntries, tblReviews, memUsers,
                 clientVars, fileVars>>

\* POST /api/sync/entry with headers X-User-Id, X-Device-Id and one record
route_sync_entry(userId, rec) ==
  LET request == Pushing(Request("route_sync_entry", userId, NoToken), {rec})
      data == [UserData(userId) EXCEPT !.entries = MapSet(@, rec)]
  IN
  /\ StartOp
  /\ IF ~Has(memUsers, userId)
     THEN /\ reply' = Answers(request, FALSE, "Usuario no registrado")
          /\ UNCHANGED memData
     ELSE /\ memData' = Put(memData, userId, data)
          /\ reply' = [Answers(request, TRUE, "") EXCEPT
                         !.synced = Found(UserData(userId).entries, rec)]
  /\ UNCHANGED <<syncRest, users, tblEntries, tblReviews, memUsers,
                 clientVars, fileVars>>

\* ----- the remote service against any callers -----
AuthNext ==
  \/ ServerTick
  \/ \E userHash \in UserHashes, token \in Tokens :
       \/ \E deviceId \in Devices :
            \/ register_or_auth_user(userHash, token, deviceId)
            \/ route_register(userHash, token, deviceId)
       \/ \E cursor \in Cursors :
            \/ \E batch \in Batches(userHash, EntryIds) :
                 sync_entries_token(userHash, token, batch, cursor)
            \/ \E batch \in Batches(userHash, ReviewIds) :
                 sync_reviews_token(userHash, token, batch, cursor)
       \/ \E id \in EntryIds, t \in Times :
            sync_single_entry_token(userHash, token, PushRec(userHash, id, t))
  \/ \E userHash \in UserHashes :
       \/ \E cursor \in Cursors :
            \/ \E batch \in Batches(userHash, EntryIds) :
                 \/ sync_entries(userHash, batch, cursor)
                 \/ \E reviewBatch \in Batches(userHash, ReviewIds) :
                      route_sync(userHash, batch, reviewBatch, cursor)
            \/ \E batch \in Batches(userHash, ReviewIds) :
                 sync_reviews_of(userHash, batch, cursor)
       \/ \E id \in EntryIds, t \in Times :
            \/ sync_single_entry_of(userHash, PushRec(userHash, id, t))
            \/ route_sync_entry(userHash, PushRec(userHash, id, t))

AuthSpec == Init /\ [][AuthNext]_vars

\* ----- the credential check and the temporary lock of an account -----
\* The devices a user registers.
DeviceIds == {"A", "B"}

\* The service has run before: either it has no user, or "ana" registered
\* from device "A" with the passphrase and, since then, a number of checks
\* of her credentials were refused in a row, too few to lock the account.
Refused == 0 .. MaxAttempts - 1
Earlier ==
  {Empty} \cup
  {[userHash \in {hashPassword(Text("ana"))} |->
      [NewUser(verificationToken(Passphrase), "A") EXCEPT !.failed = n]]
     : n \in Refused}

CredInit == \E rows \in Earlier : Installed(TRUE, 1, rows)

\* The functions of the schema that check the credentials of the caller:
\* register_or_auth_user and the functions that take a token, here with
\* requests that push nothing or one record; and the route that registers
\* a user in memory.
CredNext ==
  \/ ServerTick
  \/ \E userHash \in UserHashes, token \in Tokens :
       \/ \E deviceId \in DeviceIds :
            \/ register_or_auth_user(userHash, token, deviceId)
            \/ route_register(userHash, token, deviceId)
       \/ sync_entries_token(userHash, token, {}, 0)
       \/ sync_reviews_token(userHash, token, {}, 0)
       \/ sync_single_entry_token(userHash, token,
                                  PushRec(userHash, "e1", MaxTime))

CredSpec == CredInit /\ [][CredNext]_vars

\* ----- the sync client, its configuration and its session (lib/sync.ts) -----
\* One invocation of setupSync(), sync() or syncEntry() runs at a time on a
\* device; it is split where it awaits the remote service, whose answers are
\* arbitrary here.  clearSyncConfig(), the unlock of the session, local
\* writes and the end of the browser session run in between.

\* The variables the client leaves alone.
clientRest == <<srvClk, lastSyncAt, srvEntries, srvReviews, usedIds, pc,
                inflight, deletedHere, touched, authVars, supabase,
                fileVars>>

\* A variant to try the properties against: the configuration remembers the
\* passphrase.
NewConfig_Remember(email, password, deviceId) ==
  [enabled |-> TRUE,
   userHash |-> hashPassword(Text(email)),
   passwordHash |-> hashPassword(Text(password)),
   password |-> password,
   lastSyncAt |-> 0,
   deviceId |-> deviceId]

\* const config: SyncConfig = { enabled: true, userHash, passwordHash,
\*                              lastSyncAt: 0, deviceId }
NewConfig(email, password, deviceId) ==
  [enabled |-> TRUE,
   userHash |-> hashPassword(Text(email)),
   passwordHash |-> hashPassword(Text(password)),
   lastSyncAt |-> 0,
   deviceId |-> deviceId]

\* config?.enabled
Enabled(c) == c # NoConfig /\ c.enabled

\* verifyPassword(password)
verifyPassword(d, password) ==
  config[d] # NoConfig
  /\ hashPassword(Text(password)) = config[d].passwordHash

\* needsPassword()
needsPassword(d) == Enabled(config[d]) /\ session[d] = NoPassword

\* isSyncEnabled()
isSyncEnabled(d) == Enabled(config[d])

\* The e-mail the user of the device signs in with.
OwnEmails == {"ana"}

\* The faults of the environment: an exception while the local records are
\* read or encrypted, while the configuration is written, or none.
Faults == {"none", "throw"}

\* A variant to try the properties against: the registration sends the
\* password hash as it is stored.
RegisterRequest_SendsHash(c, password) ==
  [op |-> "register_or_auth_user",
   p_user_hash |-> c.userHash,
   p_verification_token |-> c.passwordHash,
   p_device_id |-> c.deviceId]

\* The requests of the client.
RegisterRequest(c, password) ==
  [op |-> "register_or_auth_user",
   p_user_hash |-> c.userHash,
   p_verification_token |-> hashPassword(c.passwordHash),
   p_device_id |-> c.deviceId]
BulkRequest(op, c, batch) ==
  [op |-> op,
   p_user_hash |-> c.userHash,
   p_records |-> batch,
   p_last_sync_at |-> c.lastSyncAt]
SingleRequest(c, rec) ==
  [op |-> "sync_single_entry", p_user_hash |-> c.userHash, p_entry |-> rec]

\* localEntries.map(e => encryptEntryForSync(e, syncPassword))
EncryptedEntries(store, cursor, password) ==
  {encryptEntryForSync(id, store[id], password) :
     id \in LocalEntriesAbove(store, cursor)}
\* localReviews.map(r => encryptReviewForSync(r, syncPassword))
EncryptedReviews(store, cursor, password) ==
  {encryptReviewForSync(id, store[id], password) :
     id \in LocalReviewsAbove(store, cursor)}

\* The answers of the remote service to a bulk call: an array of records
\* with different ids, encrypted with the passphrase or with something else
\* (the tombstones among them are followed in Spec).
RemoteEntries ==
  {[id |-> id, data |-> encrypt([content |-> "remote"], Passphrase),
    updatedAt |-> t, deleted |-> FALSE] : id \in RemoteIds, t \in Times}
  \cup {[id |-> id, data |-> encrypt([content |-> "remote"], OtherKey),
         updatedAt |-> MaxTime, deleted |-> FALSE] : id \in RemoteIds}
RemoteReviews ==
  {[id |-> id, data |-> encrypt([createdAt |-> t], Passphrase),
    updatedAt |-> t, deleted |-> FALSE] : id \in ReviewIds, t \in Times}
  \cup {[id |-> id, data |-> encrypt([createdAt |-> MaxTime], OtherKey),
         updatedAt |-> MaxTime, deleted |-> FALSE] : id \in ReviewIds}
Arrays(ids, records) ==
  UNION {{resp \in [some -> records] : \A id \in some : resp[id].id = id} :
           some \in SUBSET ids}

\* 'pushed' of an answer: the service stored every record of the request.
Sent(requests) ==
  Cardinality(UNION {request.p_records : request \in requests})
\* 'serverTime' of an answer: the clock of the service reads half a
\* millisecond more than the clock of the device.
Reported(d) == [ms |-> clk[d], frac |-> 1]

\* How an awaited call of the remote service ends: the promise rejects
\* (throw), { error }, { data } without success, { data } with success.
Outcomes == {"throw", "error", "refused", "ok"}

\* A record of the array is skipped: it does not decrypt.
Skips(resp, password) ==
  \E id \in DOMAIN resp : ~CanDecrypt(resp[id].data, password)
\* The records of an array whose iteration throws in the local store (get,
\* put or delete fails): at most one of them.
StoreFaults(resp) == {{}} \cup {{id} : id \in DOMAIN resp}
\* The array without those records.
Without(resp, failing) == [id \in DOMAIN resp \ failing |-> resp[id]]

\* What the invocations return (result[d] holds it until the next operation
\* of the client).
SetupResult(seq, success, error) ==
  [op |-> "setupSync", seq |-> seq, success |-> success, error |-> error]
\* A variant to try the properties against: every failure has one message.
SyncResult_OneError(c, success, error) ==
  [op |-> "sync", seq |-> c.seq, success |-> success,
   error |-> IF success THEN "" ELSE "Error de sincronizacion",
   pushed |-> IF success THEN c.pushed ELSE 0,
   pulled |-> IF success THEN c.pulled ELSE 0,
   conflicts |-> IF success THEN c.conflicts ELSE 0,
   threw |-> FALSE, fault |-> FALSE,
   failed |-> c.failed, changed |-> c.changed, skipped |-> c.skipped,
   given |-> c.password # NoPassword]

SyncResult(c, success, error) ==
  [op |-> "sync", seq |-> c.seq, success |-> success, error |-> error,
   pushed |-> IF success THEN c.pushed ELSE 0,
   pulled |-> IF success THEN c.pulled ELSE 0,
   conflicts |-> IF success THEN c.conflicts ELSE 0,
   threw |-> FALSE, fault |-> FALSE,
   failed |-> c.failed, changed |-> c.changed, skipped |-> c.skipped,
   given |-> c.password # NoPassword]
\* A variant to try the properties against: needsUnlock is never reported.
EntryResult_NoUnlock(seq, success, needsUnlock, error) ==
  [op |-> "syncEntry", seq |-> seq, success |-> success,
   needsUnlock |-> FALSE, error |-> error]

EntryResult(seq, success, needsUnlock, error) ==
  [op |-> "syncEntry", seq |-> seq, success |-> success,
   needsUnlock |-> needsUnlock, error |-> error]

\* A variant to try the properties against: no catch around the body.
Catch_Rethrow(c) ==
  [SyncResult(c, FALSE, "") EXCEPT !.threw = TRUE, !.fault = TRUE]

\* } catch { return { success: false, pushed: 0, pulled: 0, conflicts: 0,
\*                    error: "Error de sincronización" } }
Catch(c) ==
  [SyncResult(c, FALSE, "Error de sincronizacion") EXCEPT !.fault = TRUE]

\* The locals of a sync() invocation: the configuration and the passphrase
\* it read at its start, its counts, and what happened to it so far (failed:
\* the exchange that failed; changed: a merge changed a local store; skipped:
\* a returned record was skipped; resp: the entries the service returned,
\* without the one that failed in the local store).
SyncCall(seq, c, password) ==
  [op |-> "sync", seq |-> seq, step |-> "entries", config |-> c,
   password |-> password, pushed |-> 0, pulled |-> 0, conflicts |-> 0,
   failed |-> "none", changed |-> FALSE, skipped |-> FALSE,
   resp |-> Empty]

Returns(d, value) ==
  /\ result' = [result EXCEPT ![d] = value]
  /\ call' = [call EXCEPT ![d] = NoCall]

\* saveSyncConfig(config)
saveSyncConfig(d, c) == config' = [config EXCEPT ![d] = c]

\* setupSync(email, password) up to the call of register_or_auth_user
setupSync(d, email, password) ==
  /\ StartOp
  /\ call[d] = NoCall
  /\ IF ~supabase
     THEN /\ Returns(d, SetupResult(ops', FALSE, "Supabase no configurado"))
          /\ UNCHANGED wire
     ELSE LET c == NewConfig(email, password, d)
          IN /\ wire' = {RegisterRequest(c, password)}
             /\ call' = [call EXCEPT ![d] =
                  [op |-> "setupSync", seq |-> ops', config |-> c,
                   password |-> password]]
             /\ result' = [result EXCEPT ![d] = NoResult]
  /\ UNCHANGED <<clientRest, clk, entries, reviews, config, session>>

\* setupSync from the answer on: the configuration is saved and the
\* passphrase put in the session only after data.success.
setupSyncReply(d) ==
  /\ call[d].op = "setupSync"
  /\ wire' = {}
  /\ \E outcome \in Outcomes :
       IF outcome = "ok"
       THEN /\ saveSyncConfig(d, call[d].config)
            /\ session' = [session EXCEPT ![d] = call[d].password]
            /\ Returns(d, SetupResult(call[d].seq, TRUE, ""))
       ELSE /\ Returns(d, SetupResult(call[d].seq, FALSE,
                 IF outcome = "throw" THEN "Error de conexion"
                 ELSE IF outcome = "error" THEN "Error al conectar"
                 ELSE "Error de autenticacion"))
            /\ UNCHANGED <<config, session>>
  /\ UNCHANGED <<clientRest, clk, entries, reviews, ops>>

\* handleUnlock of the sync modal: verifyPassword, then setSyncPassword.
unlock(d, password) ==
  /\ StartOp
  /\ session' = [session EXCEPT ![d] =
                   IF verifyPassword(d, password) THEN password ELSE @]
  /\ result' = [result EXCEPT ![d] = NoResult]
  /\ UNCHANGED <<clientRest, clk, entries, reviews, config, wire, call>>

\* clearSyncConfig()
clearSyncConfig(d) ==
  /\ StartOp
  /\ config' = [config EXCEPT ![d] = NoConfig]
  /\ session' = [session EXCEPT ![d] = NoPassword]
  /\ result' = [result EXCEPT ![d] = NoResult]
  /\ UNCHANGED <<clientRest, clk, entries, reviews, wire, call>>

\* The browser session ends: sessionStorage is dropped, and so is whatever
\* was running.
closeTab(d) ==
  /\ StartOp
  /\ session' = [session EXCEPT ![d] = NoPassword]
  /\ call' = [call EXCEPT ![d] = NoCall]
  /\ wire' = {}
  /\ result' = [result EXCEPT ![d] = NoResult]
  /\ UNCHANGED <<clientRest, clk, entries, reviews, config>>

\* sync(password?) up to the call of sync_entries
syncStart(d, password) ==
  LET c == config[d]
      syncPassword == IF password # NoPassword THEN password ELSE session[d]
      locals == SyncCall(ops', c, syncPassword)
  IN
  /\ StartOp
  /\ call[d] = NoCall
  /\ IF ~Enabled(c)
     THEN /\ Returns(d, SyncResult(locals, FALSE, "Sync no configurado"))
          /\ UNCHANGED wire
     ELSE IF ~supabase
     THEN /\ Returns(d, SyncResult(locals, FALSE, "Supabase no disponible"))
          /\ UNCHANGED wire
     ELSE IF syncPassword = NoPassword
     THEN /\ Returns(d, SyncResult(locals, FALSE, "Contrasena requerida"))
          /\ UNCHANGED wire
     ELSE \E fault \in Faults :
            IF fault = "throw"
            THEN /\ Returns(d, Catch(locals))
                 /\ UNCHANGED wire
            ELSE /\ wire' = {BulkRequest("sync_entries", c,
                       EncryptedEntries(entries[d], c.lastSyncAt,
                                        syncPassword))}
                 /\ call' = [call EXCEPT ![d] = locals]
                 /\ result' = [result EXCEPT ![d] = NoResult]
  /\ UNCHANGED <<clientRest, clk, entries, reviews, config, session>>

\* sync() from the answer of sync_entries to the call of sync_reviews
syncEntriesReply(d) ==
  LET c == call[d]
  IN
  /\ c.op = "sync" /\ c.step = "entries"
  /\ \E outcome \in Outcomes :
       IF outcome = "throw"
       THEN /\ Returns(d, Catch([c EXCEPT !.failed = "entries"]))
            /\ wire' = {}
            /\ UNCHANGED entries
       ELSE IF outcome = "error"
       THEN /\ Returns(d, SyncResult([c EXCEPT !.failed = "entries"], FALSE,
                                     "Error al sincronizar entries"))
            /\ wire' = {}
            /\ UNCHANGED entries
       ELSE IF outcome = "refused"
       THEN /\ Returns(d, SyncResult([c EXCEPT !.failed = "entries"], FALSE,
                                     "Error de sincronizacion"))
            /\ wire' = {}
            /\ UNCHANGED entries
       ELSE \E answer \in Arrays(RemoteIds, RemoteEntries), fault \in Faults :
            \E failing \in StoreFaults(answer) :
              LET resp == Without(answer, failing)
                  serverTime == Reported(d)
                  pushed == Sent(wire)
                  merged == MergeEntries(entries[d], resp, c.password)
                  locals == [c EXCEPT
                    !.step = "reviews",
                    !.config = [c.config EXCEPT
                                  !.lastSyncAt = NewCursor(serverTime, clk[d])],
                    !.pushed = @ + pushed,
                    !.pulled = @ + PulledCount(entries[d], resp, c.password),
                    !.conflicts = @ + ConflictCount(entries[d], resp,
                                                    c.password),
                    !.changed = (merged # entries[d]),
                    !.resp = resp,
                    !.skipped = Skips(resp, c.password) \/ failing # {}]
              IN /\ entries' = [entries EXCEPT ![d] = merged]
                 /\ IF fault = "throw"
                    THEN /\ Returns(d, Catch(locals))
                         /\ wire' = {}
                    ELSE /\ wire' = {BulkRequest("sync_reviews", c.config,
                               EncryptedReviews(reviews[d],
                                                c.config.lastSyncAt,
                                                c.password))}
                         /\ call' = [call EXCEPT ![d] = locals]
                         /\ UNCHANGED result
  /\ UNCHANGED <<clientRest, clk, reviews, config, session, ops>>

\* sync() from the answer of sync_reviews to its return
syncReviewsReply(d) ==
  LET c == call[d]
  IN
  /\ c.op = "sync" /\ c.step = "reviews"
  /\ wire' = {}
  /\ \E outcome \in Outcomes :
       IF outcome = "throw"
       THEN /\ Returns(d, Catch([c EXCEPT !.failed = "reviews"]))
            /\ UNCHANGED <<reviews, config>>
       ELSE IF outcome \in {"error", "refused"}
       THEN \E fault \in Faults :
              IF fault = "throw"
              THEN /\ Returns(d, Catch([c EXCEPT !.failed = "reviews"]))
                   /\ UNCHANGED <<reviews, config>>
              ELSE /\ saveSyncConfig(d, c.config)
                   /\ Returns(d, SyncResult([c EXCEPT !.failed = "reviews"],
                                            TRUE, ""))
                   /\ UNCHANGED reviews
       ELSE \E answer \in Arrays(ReviewIds, RemoteReviews), fault \in Faults :
            \E failing \in StoreFaults(answer) :
              LET resp == Without(answer, failing)
                  pushed == Sent(wire)
                  merged == MergeReviews(reviews[d], resp, c.password)
                  locals == [c EXCEPT
                    !.pushed = @ + pushed,
                    !.pulled = @ + Cardinality(DOMAIN merged
                                                 \ DOMAIN reviews[d]),
                    !.changed = @ \/ (merged # reviews[d]),
                    !.skipped = @ \/ Skips(resp, c.password)
                                  \/ failing # {}]
              IN /\ reviews' = [reviews EXCEPT ![d] = merged]
                 /\ IF fault = "throw"
                    THEN /\ Returns(d, Catch(locals))
                         /\ UNCHANGED config
                    ELSE /\ saveSyncConfig(d, c.config)
                         /\ Returns(d, SyncResult(locals, TRUE, ""))
  /\ UNCHANGED <<clientRest, clk, entries, session, ops>>

\* syncEntry(entry) up to the call of sync_single_entry
syncEntryStart(d, id) ==
  LET c == config[d]
      password == session[d]
  IN
  /\ StartOp
  /\ call[d] = NoCall
  /\ Has(entries[d], id)
  /\ IF ~Enabled(c)
     THEN /\ Returns(d, EntryResult(ops', FALSE, FALSE, "Sync no habilitado"))
          /\ UNCHANGED wire
     ELSE IF password = NoPassword
     THEN /\ Returns(d, EntryResult(ops', FALSE, TRUE, "Sesion expirada"))
          /\ UNCHANGED wire
     ELSE IF ~supabase
     THEN /\ Returns(d, EntryResult(ops', FALSE, FALSE,
                                    "Supabase no disponible"))
          /\ UNCHANGED wire
     ELSE \E fault \in Faults :
            IF fault = "throw"
            THEN /\ Returns(d, EntryResult(ops', FALSE, FALSE, "Error de red"))
                 /\ UNCHANGED wire
            ELSE /\ wire' = {SingleRequest(c,
                       encryptEntryForSync(id, entries[d][id], password))}
                 /\ call' = [call EXCEPT ![d] =
                      [op |-> "syncEntry", seq |-> ops', config |-> c,
                       password |-> password]]
                 /\ result' = [result EXCEPT ![d] = NoResult]
  /\ UNCHANGED <<clientRest, clk, entries, reviews, config, session>>

\* syncEntry from the answer on
syncEntryReply(d) ==
  LET c == call[d]
  IN
  /\ c.op = "syncEntry"
  /\ wire' = {}
  /\ \E outcome \in Outcomes, fault \in Faults :
       IF outcome = "ok" /\ fault = "none"
       THEN /\ saveSyncConfig(d, [c.config EXCEPT !.lastSyncAt = clk[d]])
            /\ Returns(d, EntryResult(c.seq, TRUE, FALSE, ""))
       ELSE /\ Returns(d, EntryResult(c.seq, FALSE, FALSE,
                 IF outcome = "refused" THEN "Error desconocido"
                 ELSE "Error de red"))
            /\ UNCHANGED config
  /\ UNCHANGED <<clientRest, clk, entries, reviews, session, ops>>

\* The application starts at any time, in a build with or without the
\* address and the key of the remote service.
ClientInit == \E available \in BOOLEAN, now \in Times : Start(available, now)

ClientNext ==
  \E d \in Devices :
    \/ UpdateEntry(d)
    \/ \E id \in EntryIds : CreateEntry(d, id)
    \/ \E id \in ReviewIds : saveReview(d, id)
    \/ \E email \in OwnEmails, password \in Passwords :
         setupSync(d, email, password)
    \/ setupSyncReply(d)
    \/ \E password \in Passwords : unlock(d, password)
    \/ clearSyncConfig(d)
    \/ closeTab(d)
    \/ \E password \in Passwords \cup {NoPassword} : syncStart(d, password)
    \/ syncEntriesReply(d)
    \/ syncReviewsReply(d)
    \/ \E id \in RemoteIds : syncEntryStart(d, id)
    \/ syncEntryReply(d)

ClientSpec == ClientInit /\ [][ClientNext]_vars

\* ----- AES-GCM payloads with PBKDF2 keys (lib/crypto) -----
\* OWASP 2023: 310,000 iterations; 100,000 for the payloads of version 1.
PBKDF2_ITERATIONS_V2 == 310000
PBKDF2_ITERATIONS_V1 == 100000
\* The iterations of the module before the payloads had versions.
PBKDF2_ITERATIONS == 100000
CURRENT_CRYPTO_VERSION == 2

\* What is encrypted, and the random bytes of a salt and of an IV.
Plaintexts == {"hola", "adios"}
Salts == {"salt1", "salt2"}
Ivs == {"iv1", "iv2"}
\* The version field of a payload; 0 stands for a payload without the field
\* (payload.version || 1 reads both as 1).
Versions == {0, 1, 2, 3}

\* crypto.subtle.deriveKey with PBKDF2 and SHA-256: another password, salt
\* or number of iterations gives another key.
Pbkdf2(password, salt, iterations) ==
  [password |-> password, salt |-> salt, iterations |-> iterations]

\* A variant to try the properties against: the iterations of the current
\* version for every payload.
deriveKey_Current(password, salt, version) ==
  Pbkdf2(password, salt, PBKDF2_ITERATIONS_V2)

\* deriveKey(password, salt, version):
\*   iterations = version >= 2 ? PBKDF2_ITERATIONS_V2 : PBKDF2_ITERATIONS_V1
deriveKey(password, salt, version) ==
  Pbkdf2(password, salt,
         IF version >= 2 THEN PBKDF2_ITERATIONS_V2 ELSE PBKDF2_ITERATIONS_V1)

\* crypto.subtle.encrypt with AES-GCM: the bytes of the ciphertext and its
\* tag.  intact is FALSE once a byte was changed.
Seal(key, iv, data) ==
  [key |-> key, iv |-> iv, data |-> data, intact |-> TRUE]

\* A variant to try the properties against: decryption without the tag.
Opens_Unchecked(key, iv, bytes) == TRUE

\* crypto.subtle.decrypt with AES-GCM verifies the tag: it opens the bytes
\* only with the key and the IV they were sealed with.
Opens(key, iv, bytes) ==
  bytes.intact /\ bytes.key = key /\ bytes.iv = iv

\* A variant to try the properties against: the encoding reads the buffer
\* behind the bytes from another offset.
uint8ArrayToBase64_Offset(arr) == [valid |-> TRUE, bytes |-> "offset"]

\* btoa of the bytes: a text of the base64 alphabet that stands for them.
arrayBufferToBase64(buffer) == [valid |-> TRUE, bytes |-> buffer]
uint8ArrayToBase64(arr) == [valid |-> TRUE, bytes |-> arr]
\* atob throws InvalidCharacterError on a text that is not base64.
Decodes(base64) == base64.valid
base64ToUint8Array(base64) == base64.bytes

\* encrypt(data, password), with the salt and the IV that
\* crypto.getRandomValues gives it
encryptPayload(data, password, salt, iv) ==
  LET key == deriveKey(password, salt, CURRENT_CRYPTO_VERSION)
  IN [ciphertext |-> arrayBufferToBase64(Seal(key, iv, data)),
      iv |-> uint8ArrayToBase64(iv),
      salt |-> uint8ArrayToBase64(salt),
      version |-> CURRENT_CRYPTO_VERSION]

\* encrypt(data, password) of the module before the payloads had versions:
\* 100,000 iterations, version: 1
encryptVersion1(data, password, salt, iv) ==
  LET key == Pbkdf2(password, salt, PBKDF2_ITERATIONS)
  IN [ciphertext |-> arrayBufferToBase64(Seal(key, iv, data)),
      iv |-> arrayBufferToBase64(iv),
      salt |-> arrayBufferToBase64(salt),
      version |-> 1]

\* What decrypt() does: it returns the plaintext or throws; iterations are
\* those of the key it derived.
Decrypted(password, value, iterations) ==
  [op |-> "decrypt", password |-> password, threw |-> FALSE, error |-> "",
   value |-> value, iterations |-> iterations]
DecryptThrows(password, error, iterations) ==
  [op |-> "decrypt", password |-> password, threw |-> TRUE, error |-> error,
   value |-> "", iterations |-> iterations]

\* decrypt(payload, password): the three fields are decoded and the key is
\* derived before the try block; the catch of the block turns every failure
\* of crypto.subtle.decrypt into DECRYPTION_FAILED.
decryptPayload(sealed, password) ==
  IF ~(Decodes(sealed.salt) /\ Decodes(sealed.iv)
       /\ Decodes(sealed.ciphertext))
  THEN DecryptThrows(password, "InvalidCharacterError", 0)
  ELSE LET payloadVersion == IF sealed.version = 0 THEN 1
                             ELSE sealed.version
           key == deriveKey(password, base64ToUint8Array(sealed.salt),
                            payloadVersion)
       IN IF Opens(key, base64ToUint8Array(sealed.iv),
                   base64ToUint8Array(sealed.ciphertext))
          THEN Decrypted(password,
                         base64ToUint8Array(sealed.ciphertext).data,
                         key.iterations)
          ELSE DecryptThrows(password, "DECRYPTION_FAILED", key.iterations)

\* The variables the crypto module leaves alone.
cryptoRest == <<syncVars, authVars, clientVars, bundle, codec, issued>>

\* A caller encrypts a text.
Encrypts(data, password, salt, iv) ==
  /\ envelope' = encryptPayload(data, password, salt, iv)
  /\ report' = NoReport
  /\ UNCHANGED cryptoRest

\* The payload at hand was made by the module before the versions.
EncryptsVersion1(data, password, salt, iv) ==
  /\ envelope' = encryptVersion1(data, password, salt, iv)
  /\ report' = NoReport
  /\ UNCHANGED cryptoRest

\* The payload changes where it is kept: bytes of the ciphertext change,
\* the ciphertext is replaced by a text that is not base64, the version
\* field is rewritten or dropped.
AlterCiphertext ==
  /\ envelope # NoPayload
  /\ envelope.ciphertext.bytes.intact
  /\ envelope' = [envelope EXCEPT !.ciphertext.bytes.intact = FALSE]
  /\ report' = NoReport
  /\ UNCHANGED cryptoRest

CorruptCiphertext ==
  /\ envelope # NoPayload
  /\ envelope.ciphertext.valid
  /\ envelope' = [envelope EXCEPT !.ciphertext.valid = FALSE]
  /\ report' = NoReport
  /\ UNCHANGED cryptoRest

SetVersion(version) ==
  /\ envelope # NoPayload
  /\ envelope.version # version
  /\ envelope' = [envelope EXCEPT !.version = version]
  /\ report' = NoReport
  /\ UNCHANGED cryptoRest

\* A caller decrypts the payload at hand.
Decrypts(password) ==
  /\ envelope # NoPayload
  /\ report' = decryptPayload(envelope, password)
  /\ UNCHANGED <<cryptoRest, envelope>>

CryptoNext ==
  \/ \E data \in Plaintexts, password \in Passwords,
        salt \in Salts, iv \in Ivs :
       \/ Encrypts(data, password, salt, iv)
       \/ EncryptsVersion1(data, password, salt, iv)
  \/ AlterCiphertext
  \/ CorruptCiphertext
  \/ \E version \in Versions : SetVersion(version)
  \/ \E password \in Passwords : Decrypts(password)

CryptoSpec == Init /\ [][CryptoNext]_vars

\* ----- export and import of the local store (lib/export) -----
\* The passwords a user types for a file, one of them too short for an
\* export.
FilePasswords == {"test-password-123", "wrong-password", "short"}
MinPasswordLength == 8

\* JSON.stringify and JSON.parse: the text of a value, and the value of a
\* text.
Stringify(value) == [json |-> value]
Parse(text) == text.json

\* db.entries.toArray(), db.reviews.toArray(): the records with their ids.
toArray(store) == {[id |-> id, record |-> store[id]] : id \in DOMAIN store}

\* The ExportData of the two tables.
ExportData(entryStore, reviewStore, now) ==
  [version |-> "2.0.0", exportedAt |-> now,
   entries |-> toArray(entryStore), reviews |-> toArray(reviewStore)]

\* A variant to try the properties against: an export without the reviews.
EncryptedExport_NoReviews(exportData, password, salt, iv, now) ==
  Stringify([version |-> "2.0.0", format |-> "encrypted", exportedAt |-> now,
             payload |-> encryptPayload(
                           Stringify([exportData EXCEPT !.reviews = {}]),
                           password, salt, iv)])

\* The file exportEncryptedSecure returns: the EncryptedExportData whose
\* payload is encrypt(JSON.stringify(exportData), password).
EncryptedExport(exportData, password, salt, iv, now) ==
  Stringify([version |-> "2.0.0", format |-> "encrypted", exportedAt |-> now,
             payload |-> encryptPayload(Stringify(exportData),
                                        password, salt, iv)])

\* A variant to try the properties against: an entry as new as the local
\* one is imported.
ImportsEntry_OrEqual(store, item) ==
  ~Has(store, item.id) \/ item.record.updatedAt >= store[item.id].updatedAt

\* for (const entry of data.entries || []): add if the id is new, put if
\* entry.updatedAt > existing.updatedAt, skip otherwise.
ImportsEntry(store, item) ==
  ~Has(store, item.id) \/ item.record.updatedAt > store[item.id].updatedAt

RECURSIVE ImportEntries(_, _)
ImportEntries(store, items) ==
  IF items = {} THEN store
  ELSE LET item == CHOOSE i \in items : TRUE
       IN ImportEntries(IF ImportsEntry(store, item)
                        THEN Put(store, item.id, item.record) ELSE store,
                        items \ {item})

\* A variant to try the properties against: an import that leaves the
\* reviews of the file out.
ImportReviews_Nothing(store, items) == store

\* for (const review of data.reviews || []): add if the id is new.
RECURSIVE ImportReviews(_, _)
ImportReviews(store, items) ==
  IF items = {} THEN store
  ELSE LET item == CHOOSE i \in items : TRUE
       IN ImportReviews(IF Has(store, item.id) THEN store
                        ELSE Put(store, item.id, item.record),
                        items \ {item})

\* importPlaintext(data): the two tables afterwards and the counts.
importPlaintext(entryStore, reviewStore, data) ==
  LET taken == {i \in data.entries : ImportsEntry(entryStore, i)}
      added == {i \in data.reviews : ~Has(reviewStore, i.id)}
  IN [entries |-> ImportEntries(entryStore, data.entries),
      reviews |-> ImportReviews(reviewStore, data.reviews),
      imported |-> Cardinality(taken) + Cardinality(added),
      skipped |-> Cardinality(data.entries \ taken)]

\* What importData and exportEncryptedSecure report: a result or an Error.
Imported(password, done) ==
  [op |-> "importData", password |-> password, threw |-> FALSE,
   error |-> "", imported |-> done.imported, skipped |-> done.skipped,
   format |-> "encrypted"]
ImportThrows(password, error) ==
  [op |-> "importData", password |-> password, threw |-> TRUE,
   error |-> error, imported |-> 0, skipped |-> 0, format |-> "none"]
Exported(password, error) ==
  [op |-> "exportEncryptedSecure", password |-> password,
   threw |-> error # "", error |-> error, imported |-> 0, skipped |-> 0,
   format |-> "encrypted"]

\* The messages of the errors of an import.
PasswordRequired == "Este archivo esta cifrado. Se requiere contrasena."
WrongPasswordOrCorrupt == "Contrasena incorrecta o archivo corrupto"
NotRecognised == "Formato de archivo no reconocido o datos corruptos"

\* A variant to try the properties against: a catch that sends every error
\* to the import of the old format.
Propagated_Legacy(error) == NotRecognised

\* The catch of importData throws the error on if its message includes
\* "contraseña", "corrupto" or "DECRYPTION"; any other error ends in the
\* import of the old base64 format, which fails on a JSON text.
Propagated(error) ==
  IF error \in {PasswordRequired, WrongPasswordOrCorrupt, "DECRYPTION_FAILED"}
  THEN error ELSE NotRecognised

\* importEncryptedSecure(data, password): the error it throws, "" if none.
ImportError(file, password) ==
  IF password = NoPassword THEN PasswordRequired
  ELSE LET opened == decryptPayload(file.payload, password)
       IN IF ~opened.threw THEN ""
          ELSE IF opened.error = "DECRYPTION_FAILED"
          THEN WrongPasswordOrCorrupt
          ELSE opened.error

\* The variables export and import leave alone.
fileRest == <<clk, srvClk, lastSyncAt, srvEntries, srvReviews, usedIds, pc,
              inflight, deletedHere, touched, ops, authVars, clientVars,
              envelope, codec, issued>>

\* exportEncryptedSecure(password)
exportEncryptedSecure(d, password, salt, iv) ==
  /\ IF Len(password) < MinPasswordLength
     THEN /\ report' = Exported(password,
                 "La contrasena debe tener al menos 8 caracteres")
          /\ UNCHANGED bundle
     ELSE /\ bundle' = EncryptedExport(
                         ExportData(entries[d], reviews[d], clk[d]),
                         password, salt, iv, clk[d])
          /\ report' = Exported(password, "")
  /\ UNCHANGED <<fileRest, entries, reviews>>

\* exportEncryptedSecure(password) on another device of the user, whose
\* store holds its own version of the entries: the file is brought to
\* device d.
ExportElsewhere(d, entryStore, password) ==
  /\ StartOp
  /\ Len(password) >= MinPasswordLength
  /\ bundle' = EncryptedExport(ExportData(entryStore, Empty, clk[d]),
                               password, "salt1", "iv1", clk[d])
  /\ report' = Exported(password, "")
  /\ UNCHANGED <<clk, srvClk, lastSyncAt, srvEntries, srvReviews, usedIds,
                 pc, inflight, deletedHere, touched, authVars, clientVars,
                 envelope, codec, issued, entries, reviews>>

\* importData(data, password) of a file that exportEncryptedSecure returned
importData(d, password) ==
  LET file == Parse(bundle)
      error == ImportError(file, password)
      done == importPlaintext(entries[d], reviews[d],
                Parse(decryptPayload(file.payload, password).value))
  IN
  /\ bundle # NoBundle
  /\ IF error # ""
     THEN /\ report' = ImportThrows(password, Propagated(error))
          /\ UNCHANGED <<entries, reviews>>
     ELSE /\ entries' = [entries EXCEPT ![d] = done.entries]
          /\ reviews' = [reviews EXCEPT ![d] = done.reviews]
          /\ report' = Imported(password, done)
  /\ UNCHANGED <<fileRest, bundle>>

\* clearDemoData(): db.entries.clear(), db.reviews.clear()
clearDemoData(d) ==
  /\ entries' = [entries EXCEPT ![d] = Empty]
  /\ reviews' = [reviews EXCEPT ![d] = Empty]
  /\ report' = NoReport
  /\ UNCHANGED <<fileRest, bundle>>

FileNext ==
  \/ \E d \in Devices : Tick(d)
  \/ \E d \in Devices, id \in EntryIds : CreateEntry(d, id)
  \/ \E d \in Devices : UpdateEntry(d)
  \/ \E d \in Devices, id \in ReviewIds : saveReview(d, id)
  \/ \E d \in Devices, password \in FilePasswords,
        salt \in Salts, iv \in Ivs :
       exportEncryptedSecure(d, password, salt, iv)
  \/ \E d \in Devices, password \in FilePasswords :
       \E entryStore \in [EntryIds -> [updatedAt : {MaxTime},
                                       content : {"remote"}]] :
         ExportElsewhere(d, entryStore, password)
  \/ \E d \in Devices, password \in FilePasswords \cup {NoPassword} :
       importData(d, password)
  \/ \E d \in Devices : clearDemoData(d)

FileSpec == Init /\ [][FileNext]_vars

\* ----- the Encrypted Record Codec on whole records (lib/sync.ts) -----
\* The Entry and Review of lib/db.ts with all their fields (the merge rule
\* above reads only updatedAt and createdAt of them).
Dates == {"2024-01-15"}
Contents == {"hola", "adios"}
MoodTags == {<<>>, <<"calma">>}
Habits == {[sleep |-> [hours |-> 7]], [sleep |-> [hours |-> 8]]}
Highlights == {[oneLiner |-> "uno"], [oneLiner |-> "otro"]}
WordCounts == {1, 2}
FullEntries ==
  [id : EntryIds, date : Dates, createdAt : Times, updatedAt : Times,
   content : Contents, moodTags : MoodTags, habits : Habits,
   highlights : Highlights, wordCount : WordCounts]
\* goals?: string[] is optional.
ReviewTypes == {"weekly", "monthly"}
FullReviews ==
  [id : ReviewIds, type : ReviewTypes, periodStart : {"2024-01"},
   reflectionText : Contents, createdAt : Times]
  \cup [id : ReviewIds, type : ReviewTypes, periodStart : {"2024-01"},
        reflectionText : Contents, goals : {<<"leer">>}, createdAt : Times]

\* A variant to try the properties against: a sensitive subset without the
\* creation time.
Members_WithoutCreatedAt(record, fields) ==
  [f \in (fields \cap DOMAIN record) \ {"createdAt"} |-> record[f]]

\* JSON.stringify({f: record.f, ...}): a member whose value is undefined is
\* left out of the text.
Members(record, fields) ==
  [f \in fields \cap DOMAIN record |-> record[f]]
\* { ...base, ...data }: the members of data come last.
Spread(base, data) ==
  [f \in DOMAIN base \cup DOMAIN data |->
     IF f \in DOMAIN data THEN data[f] ELSE base[f]]

EntrySensitive == {"content", "moodTags", "habits", "highlights",
                   "wordCount", "createdAt"}
ReviewSensitive == {"reflectionText", "goals", "createdAt"}

\* encryptEntryForSync(entry, password), with the salt and the IV that
\* encrypt draws
EncryptedSyncEntry(entry, password, salt, iv) ==
  [id |-> entry.id,
   date |-> entry.date,
   data |-> encryptPayload(Stringify(Members(entry, EntrySensitive)),
                           password, salt, iv),
   updatedAt |-> entry.updatedAt]

\* encryptReviewForSync(review, password): updatedAt is review.createdAt
EncryptedSyncReview(review, password, salt, iv) ==
  [id |-> review.id,
   type |-> review.type,
   periodStart |-> review.periodStart,
   data |-> encryptPayload(Stringify(Members(review, ReviewSensitive)),
                           password, salt, iv),
   updatedAt |-> review.createdAt]

\* What a decoding does: it returns the record or throws what decrypt threw.
Decoded(op, password, opened, base) ==
  IF opened.threw
  THEN [op |-> op, password |-> password, threw |-> TRUE,
        error |-> opened.error]
  ELSE [op |-> op, password |-> password, threw |-> FALSE, error |-> "",
        value |-> Spread(base, Parse(opened.value))]

\* decryptEntryFromSync(encrypted, password)
EntryFromSync(encrypted, password) ==
  Decoded("decryptEntryFromSync", password,
          decryptPayload(encrypted.data, password),
          [id |-> encrypted.id, date |-> encrypted.date,
           updatedAt |-> encrypted.updatedAt])

\* decryptReviewFromSync(encrypted, password)
ReviewFromSync(encrypted, password) ==
  Decoded("decryptReviewFromSync", password,
          decryptPayload(encrypted.data, password),
          [id |-> encrypted.id, type |-> encrypted.type,
           periodStart |-> encrypted.periodStart])

\* The variables the codec leaves alone.
codecRest == <<syncVars, authVars, clientVars, envelope, bundle, issued>>

\* A record is encoded for the server: one record in a behaviour, any
\* record of the kind.
EncodeEntry(entry, password, salt, iv) ==
  /\ codec = NoCodec
  /\ codec' = [op |-> "encryptEntryForSync", record |-> entry,
               password |-> password,
               sent |-> EncryptedSyncEntry(entry, password, salt, iv)]
  /\ report' = NoReport
  /\ UNCHANGED codecRest

EncodeReview(review, password, salt, iv) ==
  /\ codec = NoCodec
  /\ codec' = [op |-> "encryptReviewForSync", record |-> review,
               password |-> password,
               sent |-> EncryptedSyncReview(review, password, salt, iv)]
  /\ report' = NoReport
  /\ UNCHANGED codecRest

\* The wire record at hand is decoded.
DecodeEntry(password) ==
  /\ codec.op = "encryptEntryForSync"
  /\ report' = EntryFromSync(codec.sent, password)
  /\ UNCHANGED <<codecRest, codec>>

DecodeReview(password) ==
  /\ codec.op = "encryptReviewForSync"
  /\ report' = ReviewFromSync(codec.sent, password)
  /\ UNCHANGED <<codecRest, codec>>

CodecNext ==
  \/ \E entry \in FullEntries, password \in Passwords,
        salt \in Salts, iv \in Ivs : EncodeEntry(entry, password, salt, iv)
  \/ \E review \in FullReviews, password \in Passwords,
        salt \in Salts, iv \in Ivs : EncodeReview(review, password, salt, iv)
  \/ \E password \in Passwords : DecodeEntry(password)
  \/ \E password \in Passwords : DecodeReview(password)

CodecSpec == Init /\ [][CodecNext]_vars

\* ----- the salts and IVs of encrypt() (lib/crypto) -----
\* crypto.getRandomValues fills the array with bytes of the system's random
\* generator: 16 bytes for a salt, 12 for an IV.  The generator is taken
\* as one that does not give the same bytes twice.
UsedSalts(payloads) == {base64ToUint8Array(p.salt) : p \in payloads}
UsedIvs(payloads) == {base64ToUint8Array(p.iv) : p \in payloads}

\* A variant to try the properties against: the salt is drawn at the first
\* call and kept for the later ones.
DrawnSalts_Kept(payloads) ==
  IF payloads = {} THEN Salts ELSE UsedSalts(payloads)

\* deriveKey(password, undefined, ...):
\*   useSalt = salt || crypto.getRandomValues(new Uint8Array(SALT_LENGTH))
DrawnSalts(payloads) == Salts \ UsedSalts(payloads)
\* iv = crypto.getRandomValues(new Uint8Array(IV_LENGTH))
DrawnIvs(payloads) == Ivs \ UsedIvs(payloads)

\* encrypt(data, password) in a program that has called it before
EncryptCall(data, password) ==
  \E salt \in DrawnSalts(issued), iv \in DrawnIvs(issued) :
    /\ envelope' = encryptPayload(data, password, salt, iv)
    /\ issued' = issued \cup {envelope'}
    /\ report' = NoReport
    /\ UNCHANGED <<syncVars, authVars, clientVars, bundle, codec>>

\* decrypt(payload, password) of one of the payloads
DecryptCall(password) ==
  /\ envelope \in issued
  /\ report' = decryptPayload(envelope, password)
  /\ UNCHANGED <<cryptoRest, envelope>>

EncryptNext ==
  \/ \E data \in Plaintexts, password \in Passwords :
       EncryptCall(data, password)
  \/ \E password \in Passwords : DecryptCall(password)

EncryptSpec == Init /\ [][EncryptNext]_vars

\* ======================= properties =======================

\* The step of sync() on d that runs the loop over the returned entries.
EntriesMerged(d) == pc[d] = "entries" /\ pc'[d] = "reviews"

\* The returned entries that decrypt and have a local entry of the same id.
Comparable(d) ==
  {id \in DOMAIN inflight[d].resp :
     /\ CanDecrypt(inflight[d].resp[id].data, Passphrase)
     /\ Has(entries[d], id)}
RemoteOlder(d) ==
  {id \in Comparable(d) :
     inflight[d].resp[id].updatedAt < entries[d][id].updatedAt}
RemoteNewer(d) ==
  {id \in Comparable(d) :
     inflight[d].resp[id].updatedAt > entries[d][id].updatedAt}
RemoteTied(d) ==
  {id \in Comparable(d) :
     inflight[d].resp[id].updatedAt = entries[d][id].updatedAt}

\* The local entry id is, after the step, what it was before it.
Kept(d, id) ==
  Has(entries'[d], id) /\ entries'[d][id] = entries[d][id]
\* The local entry id is, after the step, the returned one.
Replaced(d, id) ==
  /\ Has(entries'[d], id)
  /\ entries'[d][id] = decryptEntryFromSync(inflight[d].resp[id], Passphrase)

\* C1 as stated: in a full sync, a returned entry that decrypts and is older
\* than the local entry of its id leaves the local entry unchanged and counts
\* one conflict; one that is newer replaces the local entry.
C1_AsStated ==
  [][\A d \in Devices : EntriesMerged(d) =>
       /\ \A id \in RemoteOlder(d) : Kept(d, id)
       /\ inflight'[d].conflicts =
            inflight[d].conflicts + Cardinality(RemoteOlder(d))
       /\ \A id \in RemoteNewer(d) : Replaced(d, id)]_vars

\* C1, amended: in a full sync, a returned entry that decrypts and is older
\* than the local entry of its id leaves the local entry unchanged and counts
\* one conflict; one that is newer replaces the local entry, or removes it
\* when the returned record is a tombstone.
C1_Merge ==
  [][\A d \in Devices : EntriesMerged(d) =>
       /\ \A id \in RemoteOlder(d) : Kept(d, id)
       /\ inflight'[d].conflicts =
            inflight[d].conflicts + Cardinality(RemoteOlder(d))
       /\ \A id \in RemoteNewer(d) :
            IF inflight[d].resp[id].deleted
            THEN ~Has(entries'[d], id)
            ELSE Replaced(d, id)]_vars

\* A sync() that has merged its entries and counted a conflict.
C1_Witness ==
  \E d \in Devices : pc[d] = "reviews" /\ inflight[d].conflicts > 0

\* C2: the merge of a full sync never overwrites or deletes a local entry
\* for a returned entry that is not newer; when the returned entries all tie
\* with the local ones, the local store stays as it is and neither pulled
\* nor conflicts is incremented.
C2_NoOverwrite ==
  [][\A d \in Devices : EntriesMerged(d) =>
       /\ \A id \in RemoteOlder(d) \cup RemoteTied(d) : Kept(d, id)
       /\ (RemoteTied(d) = DOMAIN inflight[d].resp) =>
            /\ entries'[d] = entries[d]
            /\ inflight'[d].pulled = inflight[d].pulled
            /\ inflight'[d].conflicts = inflight[d].conflicts]_vars

\* sync() holds a returned entry that ties with the local entry of its id,
\* and the loop over the returned entries is about to run.
C2_Witness ==
  \E d \in Devices : pc[d] = "entries" /\ RemoteTied(d) # {}

\* C3: merging the returned records a second time, with no local edit in
\* between, leaves the entry store and the review store as the first merge
\* left them.
C3_MergeTwice ==
  \A d \in Devices :
    /\ pc[d] = "entries" =>
         LET once == MergeEntries(entries[d], inflight[d].resp, Passphrase)
         IN MergeEntries(once, inflight[d].resp, Passphrase) = once
    /\ pc[d] = "reviews" =>
         LET once == MergeReviews(reviews[d], inflight[d].resp, Passphrase)
         IN MergeReviews(once, inflight[d].resp, Passphrase) = once

\* sync() holds returned entries whose merge changes the local store.
C3_Witness ==
  \E d \in Devices :
    /\ pc[d] = "entries"
    /\ MergeEntries(entries[d], inflight[d].resp, Passphrase) # entries[d]

\* The returned tombstones of the passphrase, and the step that merges the
\* returned reviews.
Tombstones(d) ==
  {id \in DOMAIN inflight[d].resp :
     /\ inflight[d].resp[id].deleted
     /\ CanDecrypt(inflight[d].resp[id].data, Passphrase)}

\* C4, entries: a returned tombstone with no local entry creates none, and
\* one newer than the local entry of its id removes that entry.
C4_Entries ==
  [][\A d \in Devices : EntriesMerged(d) =>
       \A id \in Tombstones(d) :
         /\ ~Has(entries[d], id) => ~Has(entries'[d], id)
         /\ id \in RemoteNewer(d) => ~Has(entries'[d], id)]_vars

\* C4, reviews without a local counterpart: a returned tombstone creates
\* no local review.
C4_ReviewsNotCreated ==
  [][\A d \in Devices : SyncFinish(d) =>
       \A id \in Tombstones(d) :
         ~Has(reviews[d], id) => ~Has(reviews'[d], id)]_vars

\* The returned review tombstones that are newer than the local review.
NewerReviewTombstones(d) ==
  {id \in Tombstones(d) :
     /\ Has(reviews[d], id)
     /\ inflight[d].resp[id].updatedAt > reviews[d][id].createdAt}

\* C4 as stated: in a full sync a returned record (entry or review) with
\* deleted = true creates no local record when there is none, and removes
\* the local record when its updatedAt is greater than the local one's.
C4_AsStated ==
  [][\A d \in Devices :
       /\ EntriesMerged(d) =>
            \A id \in Tombstones(d) :
              /\ ~Has(entries[d], id) => ~Has(entries'[d], id)
              /\ id \in RemoteNewer(d) => ~Has(entries'[d], id)
       /\ SyncFinish(d) =>
            /\ \A id \in Tombstones(d) :
                 ~Has(reviews[d], id) => ~Has(reviews'[d], id)
            /\ \A id \in NewerReviewTombstones(d) :
                 ~Has(reviews'[d], id)]_vars

\* sync() holds a returned review tombstone that is newer than the local
\* review of its id, and the loop over the returned reviews is about to run.
C4_Witness ==
  \E d \in Devices : pc[d] = "reviews" /\ NewerReviewTombstones(d) # {}

\* The device that wrote the version a server row holds.
WrittenBy(row) == row.data.plain.content

\* The entries deleted on d before its sync() started, of which the server
\* still holds a live version written on d itself.
DeletedButLive(d, table) ==
  {id \in deletedHere[d] :
     /\ Has(table, id)
     /\ ~table[id].deleted
     /\ WrittenBy(table[id]) = d}

\* C5 as stated, for the device that deletes: when an entry that the server
\* holds was deleted on the device, the next successful sync() of the device
\* leaves a tombstone of it on the server (unless another client has stored
\* a version of its own in the meantime).
C5_AsStated ==
  [][\A d \in Devices : (SyncFinish(d) /\ ~touched[d]) =>
       DeletedButLive(d, srvEntries') = {}]_vars

\* A sync() that started after the deletion is about to return success, and
\* the server holds the deleted entry as the device last pushed it.
C5_Witness ==
  \E d \in Devices :
    /\ pc[d] = "reviews"
    /\ ~touched[d]
    /\ DeletedButLive(d, srvEntries) # {}

\* A row that the server holds stays, and changes only to a greater updatedAt.
RowsOnlyGrow(table, tableAfter) ==
  \A id \in DOMAIN table :
    /\ Has(tableAfter, id)
    /\ \/ tableAfter[id] = table[id]
       \/ tableAfter[id].updatedAt > table[id].updatedAt

\* C6: the remote operations store an incoming record only when the server
\* holds no row of its id or the incoming updatedAt is strictly greater: in
\* every step the updatedAt of a row never decreases, and a row is the same
\* after a push that is not strictly newer.
C6_ServerKeepsNewest ==
  [][/\ RowsOnlyGrow(srvEntries, srvEntries')
     /\ RowsOnlyGrow(srvReviews, srvReviews')]_vars

\* The server holds a row and the device a version of the same entry that is
\* not newer, which syncEntry() can push.
C6_Witness ==
  \E d \in Devices, id \in EntryIds :
    /\ Has(srvEntries, id)
    /\ Has(entries[d], id)
    /\ entries[d][id].updatedAt <= srvEntries[id].updatedAt
    /\ WrittenBy(srvEntries[id]) # d
    /\ ops < MaxOps

\* The step of sync() on d that calls sync_entries and gets its answer.
EntriesExchanged(d) == pc[d] = "idle" /\ pc'[d] = "entries"

\* The live entries of the passphrase on the server that d does not hold in
\* that version or a newer one, and has not deleted itself.
Unseen(d) ==
  {id \in DOMAIN srvEntries :
     /\ ~srvEntries[id].deleted
     /\ CanDecrypt(srvEntries[id].data, Passphrase)
     /\ id \notin deletedHere[d]
     /\ \/ ~Has(entries[d], id)
        \/ entries[d][id].updatedAt < srvEntries[id].updatedAt}

\* C7 as stated: the delta of a full sync contains every record that the
\* server has stored and the device has not seen, in the stored version or a
\* newer one.
C7_AsStated ==
  [][\A d \in Devices : EntriesExchanged(d) =>
       \A id \in Unseen(d) :
         /\ Has(inflight'[d].resp, id)
         /\ inflight'[d].resp[id].updatedAt >= srvEntries[id].updatedAt]_vars

\* sync() can start while the server holds an entry that the device has not
\* seen and whose updatedAt is not above the cursor of the device.
C7_Witness ==
  \E d \in Devices :
    /\ pc[d] = "idle"
    /\ ops < MaxOps
    /\ \E id \in Unseen(d) : srvEntries[id].updatedAt <= lastSyncAt[d]

\* The local entries of d of which the server holds no version that is at
\* least as new.
Unpushed(d, table) ==
  {id \in DOMAIN entries[d] :
     \/ ~Has(table, id)
     \/ table[id].updatedAt < entries[d][id].updatedAt}

\* C8 as stated: when sync() returns success, and no local write happened
\* while it ran, the server holds of every local entry a version whose
\* updatedAt is at least the local one.
C8_AsStated ==
  [][\A d \in Devices : (SyncFinish(d) /\ ~touched[d]) =>
       Unpushed(d, srvEntries') = {}]_vars

\* A sync() with no local write since it started is about to return success
\* while the server lacks a local entry of the device.
C8_Witness ==
  \E d \in Devices :
    /\ pc[d] = "reviews"
    /\ ~touched[d]
    /\ Unpushed(d, srvEntries) # {}

\* C9, failures before the reviews exchange and abandoned invocations: the
\* steps of sync() other than the final one leave lastSyncAt as it is.
C9_KeptUntilFinish ==
  [][\A d \in Devices :
       (\/ SyncEntries(d) \/ SyncEntriesFail(d) \/ SyncReviews(d)
        \/ SyncReviewsFail(d) \/ SyncThrow(d))
       => lastSyncAt'[d] = lastSyncAt[d]]_vars

\* C9 as stated: sync() changes lastSyncAt only when the entries exchange
\* and the reviews exchange both succeeded; otherwise lastSyncAt keeps its
\* value.
C9_AsStated ==
  [][\A d \in Devices :
       (\/ SyncEntries(d) \/ SyncEntriesFail(d) \/ SyncReviews(d)
        \/ SyncReviewsFail(d) \/ SyncThrow(d)
        \/ (SyncFinish(d) /\ ~inflight[d].reviewsOk))
       => lastSyncAt'[d] = lastSyncAt[d]]_vars

\* The reviews exchange of a sync() has failed and the final step is about
\* to store a cursor that differs from the stored one.
C9_Witness ==
  \E d \in Devices :
    /\ pc[d] = "reviews"
    /\ ~inflight[d].reviewsOk
    /\ NewCursor(inflight[d].serverTime, clk[d]) # lastSyncAt[d]

\* The reported time t is the whole number n of milliseconds.
IsWhole(t, n) == t.frac = 0 /\ t.ms = n

TokenOps == {"sync_entries_token", "sync_reviews_token",
             "sync_single_entry_token"}
PlainOps == {"sync_entries", "sync_reviews", "sync_single_entry"}
RouteOps == {"route_sync", "route_sync_entry"}
DataOps == TokenOps \cup PlainOps \cup RouteOps

\* This step answers a request of one of the given operations.
Answered(operations) ==
  ops' = ops + 1 /\ reply'.request.op \in operations

\* The request names a registered user and carries the token stored for it.
CredentialsHold(request) ==
  IF request.op \in RouteOps
  THEN Has(memUsers, request.userHash)
       /\ memUsers[request.userHash].verificationToken = request.token
  ELSE Has(users, request.userHash)
       /\ users[request.userHash].token = request.token

NothingStored == UNCHANGED <<tblEntries, tblReviews, memData>>
NoRecords(answer) ==
  ~answer.success /\ answer.records = Empty /\ ~answer.synced

\* C11: every data operation of the remote service (bulk entry sync, bulk
\* review sync, single-entry sync) checks the user hash and the verification
\* token first: a request whose user hash is unknown or whose token does not
\* match the stored one stores nothing and returns no records.
C11_AsStated ==
  [][Answered(DataOps) /\ ~CredentialsHold(reply'.request)
       => NothingStored /\ NoRecords(reply')]_vars

\* C11, for the functions that take a token (schema.sql 634-811) only.
C11_TokenFunctions ==
  [][Answered(TokenOps) /\ ~CredentialsHold(reply'.request)
       => NothingStored /\ NoRecords(reply')]_vars

\* A request without the token of the user was served: a record was stored
\* by a function of three arguments or by a route.
C11_Witness ==
  /\ reply # NoReply
  /\ reply.request.op \in PlainOps \cup RouteOps
  /\ reply.success
  /\ \/ Has(users, reply.request.userHash) /\ tblEntries # Empty
     \/ Has(memData, reply.request.userHash)

\* The records of an answer.
Returned(answer) ==
  IF answer.request.op = "route_sync" /\ answer.success
  THEN {answer.records.entries[id] : id \in DOMAIN answer.records.entries}
       \cup {answer.records.reviews[id] : id \in DOMAIN answer.records.reviews}
  ELSE {answer.records[id] : id \in DOMAIN answer.records}

\* The user a record was pushed as.
PushedAs(rec) == decrypt(rec.data, Passphrase).content

\* What a bulk sync of a user would answer on a table.
WouldAnswer(table, user, batch, cursor) ==
  LET answer == BulkBody(Request("sync", user, NoToken), table, user,
                         batch, cursor).reply
  IN [raised |-> answer.raised, records |-> answer.records]

\* C12 (first sentence): the records returned to a caller are records pushed
\* as the user of the call.
C12_OwnRecords ==
  reply # NoReply => \A rec \in Returned(reply) :
                        PushedAs(rec) = reply.request.userHash

\* C12 (second sentence, for the records): a call as one user never changes
\* the delta of another user, nor the records the routes keep for it.
C12_OwnDelta ==
  [][\A user \in UserHashes :
       ops' = ops + 1 /\ reply'.request.userHash # user
       => /\ \A cursor \in Cursors :
               /\ UserDelta(tblEntries', user, cursor)
                    = UserDelta(tblEntries, user, cursor)
               /\ UserDelta(tblReviews', user, cursor)
                    = UserDelta(tblReviews, user, cursor)
          /\ UserData(user)' = UserData(user)]_vars

\* C12: for two users, what a sync of one returns is made of the records
\* pushed as that user, and a push by the other user never changes what a sync
\* of the first returns.
C12_AsStated ==
  [][\A user \in UserHashes :
       ops' = ops + 1 /\ reply'.request.userHash # user /\ Has(users, user)
       => \A cursor \in Cursors :
            /\ \A batch \in Batches(user, EntryIds) :
                 WouldAnswer(tblEntries', user, batch, cursor)
                   = WouldAnswer(tblEntries, user, batch, cursor)
            /\ \A batch \in Batches(user, ReviewIds) :
                 WouldAnswer(tblReviews', user, batch, cursor)
                   = WouldAnswer(tblReviews, user, batch, cursor)]_vars

\* Both users are registered, one holds a row, and the other was answered.
C12_Witness ==
  /\ UserHashes \subseteq DOMAIN users
  /\ reply # NoReply
  /\ reply.request.op \in TokenOps \cup PlainOps
  /\ \E id \in DOMAIN tblEntries :
       tblEntries[id].user # reply.request.userHash

\* ----- the sync client (ClientSpec) -----
ConfigFields == {"enabled", "userHash", "passwordHash", "lastSyncAt",
                 "deviceId"}
\* The passphrases as values of the hash, and their hashes.
Passphrases == {Text(password) : password \in Passwords}
PasswordHashes == {hashPassword(Text(password)) : password \in Passwords}

\* C13: the configuration kept in localStorage has the fields enabled,
\* userHash, passwordHash, lastSyncAt and deviceId and no other, and none of
\* them holds the passphrase, whatever setupSync, unlock, sync, syncEntry and
\* clearSyncConfig did.
C13_ConfigFields ==
  \A d \in Devices :
    config[d] # NoConfig =>
      /\ DOMAIN config[d] = ConfigFields
      /\ config[d].enabled \in BOOLEAN
      /\ config[d].userHash \notin Passphrases
      /\ config[d].passwordHash \in PasswordHashes
      /\ config[d].passwordHash \notin Passphrases
      /\ config[d].lastSyncAt \in 0..MaxTime
      /\ config[d].deviceId \in Devices
      /\ config[d].deviceId \notin Passwords

\* The configuration as a sync saved it, with the passphrase in the session.
C13_Witness ==
  \E d \in Devices :
    /\ config[d] # NoConfig
    /\ config[d].lastSyncAt > 0
    /\ session[d] \in Passwords
    /\ result[d] # NoResult /\ result[d].op = "sync" /\ result[d].success

\* An encrypted record of a request: id, updatedAt and a sealed payload.
Sealed(rec) ==
  /\ DOMAIN rec = {"id", "data", "updatedAt"}
  /\ DOMAIN rec.data = {"key", "plain"}

\* C14: no request of the client (registration, bulk sync, single-entry
\* sync) carries the passphrase or the stored password hash: the user hash,
\* the verification token (the hash of the password hash) and encrypted
\* records are all that leaves the device.
C14_NoSecretOnTheWire ==
  \A request \in wire :
    /\ request.p_user_hash \notin Passphrases \cup PasswordHashes
    /\ request.op = "register_or_auth_user" =>
         /\ DOMAIN request = {"op", "p_user_hash", "p_verification_token",
                              "p_device_id"}
         /\ request.p_verification_token \in Tokens
         /\ request.p_verification_token
               \notin Passphrases \cup PasswordHashes
         /\ request.p_device_id \notin Passwords
    /\ request.op \in {"sync_entries", "sync_reviews"} =>
         /\ DOMAIN request = {"op", "p_user_hash", "p_records",
                              "p_last_sync_at"}
         /\ \A rec \in request.p_records : Sealed(rec)
    /\ request.op = "sync_single_entry" =>
         /\ DOMAIN request = {"op", "p_user_hash", "p_entry"}
         /\ Sealed(request.p_entry)

\* A registration is on the wire.
C14_Witness ==
  \E request \in wire :
    /\ request.op = "register_or_auth_user"
    /\ request.p_verification_token = verificationToken(Passphrase)

\* This step is the successful end of a setupSync() on d.
LoggedIn(d) ==
  call[d].op = "setupSync" /\ result'[d].op = "setupSync"
  /\ result'[d].success

\* C15 (first half): the session passphrase is set only by a successful
\* setupSync or by an unlock with the password of the stored configuration,
\* and clearSyncConfig leaves neither passphrase nor configuration.
C15_SetByLoginOnly ==
  [][\A d \in Devices :
       /\ session'[d] # session[d] /\ session'[d] # NoPassword
            => LoggedIn(d) \/ verifyPassword(d, session'[d])
       /\ call[d].op = "setupSync" /\ result'[d].op = "setupSync"
          /\ ~result'[d].success
            => UNCHANGED <<session, config>>]_vars

\* C15: the session passphrase is present only between a successful login
\* or unlock and the next logout; after clearSyncConfig the passphrase and
\* the configuration are absent (sync() and syncEntry() fail as not
\* configured, needsPassword() is false) until a new successful setupSync.
C15_AsStated ==
  [][\A d \in Devices :
       config[d] = NoConfig /\ session[d] = NoPassword
       => \/ LoggedIn(d)
          \/ /\ config'[d] = NoConfig /\ session'[d] = NoPassword
             /\ ~needsPassword(d)']_vars

\* After the logout an invocation that began before it is still waiting for
\* the remote service.
C15_Witness ==
  \E d \in Devices :
    /\ config[d] = NoConfig /\ session[d] = NoPassword
    /\ call[d].op \in {"sync", "syncEntry"}

\* This step starts a syncEntry() on d: it sends the request or returns.
StartsSyncEntry(d) ==
  /\ ops' = ops + 1
  /\ call[d] = NoCall
  /\ \/ call'[d].op = "syncEntry"
     \/ result'[d].op = "syncEntry" /\ result'[d].seq = ops'
\* This step is one of a syncEntry() on d.
SyncEntryStep(d) ==
  \/ StartsSyncEntry(d)
  \/ call[d].op = "syncEntry" /\ result'[d].op = "syncEntry"

\* syncEntry() answers needsUnlock without a request.
AsksUnlock(d) ==
  /\ result'[d].op = "syncEntry"
  /\ result'[d].needsUnlock /\ ~result'[d].success
  /\ call'[d] = NoCall /\ wire' = wire

\* C16: syncEntry never changes the local entry store, whatever its outcome;
\* when the session passphrase is missing it returns needsUnlock = true without
\* contacting the server.
C16_AsStated ==
  [][\A d \in Devices :
       SyncEntryStep(d)
       => /\ UNCHANGED entries
          /\ StartsSyncEntry(d) /\ session[d] = NoPassword
               => AsksUnlock(d)]_vars

\* C16, with the order of the checks of syncEntry: needsUnlock is the answer
\* when sync is enabled and the session passphrase is missing.
C16_UnlockWhenEnabled ==
  [][\A d \in Devices :
       SyncEntryStep(d)
       => /\ UNCHANGED entries
          /\ StartsSyncEntry(d) /\ session[d] = NoPassword
             /\ Enabled(config[d])
               => AsksUnlock(d)]_vars

\* syncEntry() has answered needsUnlock, with the entry still in the store.
C16_Witness ==
  \E d \in Devices :
    /\ result[d].op = "syncEntry" /\ result[d].needsUnlock
    /\ entries[d] # Empty

\* This step ends a sync() on d that had sent a request.
SyncEnds(d) == call[d].op = "sync" /\ result'[d].op = "sync"

\* C17 (entries exchange): when the exchange of the entries fails, sync()
\* returns a failure and has changed no local store.
C17_EntriesExchange ==
  [][\A d \in Devices :
       SyncEnds(d) /\ result'[d].failed = "entries"
       => /\ ~result'[d].success
          /\ ~result'[d].changed
          /\ UNCHANGED <<entries, reviews>>]_vars

\* C17: when a remote exchange of a full sync fails (an error of the call, a
\* network failure, an answer without success), sync() returns a failure and
\* the local entry and review stores are as they were before the call.
C17_AsStated ==
  [][\A d \in Devices :
       SyncEnds(d) /\ result'[d].failed # "none"
       => /\ ~result'[d].success
          /\ ~result'[d].changed
          /\ UNCHANGED <<entries, reviews>>]_vars

\* A sync whose reviews exchange failed has returned success after its merge
\* of the entries changed the local store.
C17_Witness ==
  \E d \in Devices :
    /\ result[d].op = "sync"
    /\ result[d].failed = "reviews"
    /\ result[d].success /\ result[d].changed

\* The entry of that id in a store, if any.
At(store, id) == IF Has(store, id) THEN {store[id]} ELSE {}

\* C18: a returned record that fails to decrypt is skipped, and it alone:
\* every other record of the batch is merged by the normal rule, and the
\* failure does not make sync() fail.
C18_OnlyThatRecordSkipped ==
  [][\A d \in Devices :
       /\ call[d].op = "sync" /\ call[d].step = "entries"
          /\ call'[d].op = "sync" /\ call'[d].step = "reviews"
            => \A id \in RemoteIds :
                 LET resp == call'[d].resp
                     password == call[d].password
                 IN IF Has(resp, id)
                       /\ CanDecrypt(resp[id].data, password)
                       /\ RemoteWins(entries[d], id, resp[id].updatedAt)
                    THEN At(entries'[d], id)
                           = {decryptEntryFromSync(resp[id], password)}
                    ELSE At(entries'[d], id) = At(entries[d], id)
       /\ SyncEnds(d) /\ ~result'[d].success
            => result'[d].fault \/ result'[d].failed = "entries"]_vars

\* A sync goes on after an answer of two records: the one that does not
\* decrypt was skipped and the other one is in the local store.
C18_Witness ==
  \E d \in Devices :
    /\ call[d].op = "sync" /\ call[d].step = "reviews"
    /\ \E skipped \in DOMAIN call[d].resp, stored \in DOMAIN call[d].resp :
         /\ ~CanDecrypt(call[d].resp[skipped].data, call[d].password)
         /\ ~Has(entries[d], skipped)
         /\ CanDecrypt(call[d].resp[stored].data, call[d].password)
         /\ At(entries[d], stored)
              = {decryptEntryFromSync(call[d].resp[stored], call[d].password)}

\* This step starts a sync() on d: it sends the first request or returns.
StartsSync(d) ==
  /\ ops' = ops + 1
  /\ call[d] = NoCall
  /\ \/ call'[d].op = "sync"
     \/ result'[d].op = "sync" /\ result'[d].seq = ops'
\* The sync() that starts has a passphrase, from its argument or the session.
Given(d) ==
  IF call'[d].op = "sync" THEN call'[d].password # NoPassword
  ELSE result'[d].given
\* sync() returns a failure with counts zero, without a request and without
\* a change of the stores or of the configuration.
Refuses(d) ==
  /\ result'[d].op = "sync"
  /\ ~result'[d].success /\ result'[d].error # ""
  /\ result'[d].pushed = 0 /\ result'[d].pulled = 0
  /\ result'[d].conflicts = 0
  /\ call'[d] = NoCall /\ wire' = wire
  /\ UNCHANGED <<entries, reviews, config, session>>

\* C19: if sync is not enabled, the remote client is unavailable, or there is
\* no passphrase (neither as argument nor in the session), sync() returns
\* success = false with an error message, makes no remote call and changes
\* neither the local stores nor the configuration; the error of 'not
\* configured' is another one than that of 'passphrase required'.
C19_RefusedBeforeAnyCall ==
  [][\A d \in Devices :
       StartsSync(d)
       /\ (~Enabled(config[d]) \/ ~supabase \/ ~Given(d))
       => /\ Refuses(d)
          /\ ~Enabled(config[d])
               => result'[d].error = "Sync no configurado"
          /\ Enabled(config[d]) /\ ~supabase
               => result'[d].error = "Supabase no disponible"
          /\ Enabled(config[d]) /\ supabase
               => result'[d].error = "Contrasena requerida"]_vars

\* sync() has answered that the passphrase is required, on a device with
\* entries and a configuration.
C19_Witness ==
  \E d \in Devices :
    /\ result[d].op = "sync"
    /\ result[d].error = "Contrasena requerida"
    /\ Enabled(config[d]) /\ entries[d] # Empty

\* sync() returned a failure with an error and all counts zero.
FailedClean(value) ==
  /\ ~value.success /\ value.error # ""
  /\ value.pushed = 0 /\ value.pulled = 0 /\ value.conflicts = 0

CheckOps == TokenOps \cup {"register_or_auth_user"}

\* This step checks the credentials of a request for an existing user.
Checks(userHash) ==
  /\ Answered(CheckOps)
  /\ reply'.request.userHash = userHash
  /\ Has(users, userHash)
WrongToken(userHash) == reply'.request.token # users[userHash].token

\* The wrong attempt in a row that locks the account.
LockingAttempt == MaxAttempts + 1

RejectedAsLocked(answer) ==
  /\ ~answer.success /\ answer.error = "ACCOUNT_LOCKED"
  /\ answer.records = Empty /\ ~answer.synced /\ ~answer.is_new

Elapsed(user) == user.locked # NoLock /\ user.locked <= srvClk

RejectedByTheCheck(answer) ==
  answer.error \in {"ACCOUNT_LOCKED", "INVALID_CREDENTIALS"}

\* C22: a lock clears by itself.  While the account is locked nothing but
\* the clock moves it out of the lock; once the lock period has elapsed a
\* request with the correct token passes the credential check, and accepting
\* it sets the failure counter to zero and removes the lock.
C22_ClearsByItself ==
  [][\A userHash \in UserHashes :
       Has(users, userHash) =>
         /\ Locked(users[userHash]) /\ ~Locked(users'[userHash]) =>
              /\ srvClk' > srvClk
              /\ Elapsed(users'[userHash])
         /\ Checks(userHash) /\ Elapsed(users[userHash])
              /\ ~WrongToken(userHash) =>
              /\ ~RejectedByTheCheck(reply')
              /\ reply'.request.op = "register_or_auth_user" =>
                   reply'.success /\ ~reply'.is_new
              /\ reply'.success =>
                   /\ users'[userHash].failed = 0
                   /\ users'[userHash].locked = NoLock
                   /\ users'[userHash].token = users[userHash].token
    ]_vars

\* The lock of an account has run out after a request with the correct token
\* was rejected as locked, and another request can arrive.
C22_Witness ==
  \E userHash \in UserHashes :
    /\ Has(users, userHash)
    /\ Elapsed(users[userHash])
    /\ users[userHash].failed >= LockingAttempt
    /\ reply # NoReply
    /\ reply.request.userHash = userHash
    /\ reply.request.token = users[userHash].token
    /\ RejectedAsLocked(reply)
    /\ ops < MaxOps

\* This step answers a call of register_or_auth_user for the user.
Registers(userHash) ==
  /\ Answered({"register_or_auth_user"})
  /\ reply'.request.userHash = userHash
\* This step answers a call of the register route for the user.
RouteRegisters(userId) ==
  /\ Answered({"route_register"})
  /\ reply'.request.userHash = userId

Created(answer) == answer.success /\ answer.is_new
Authenticated(answer) == answer.success /\ ~answer.is_new
SameAccount(userHash) ==
  /\ users'[userHash].token = users[userHash].token
  /\ users'[userHash].devices = users[userHash].devices

\* C23: for a userHash with no prior user, registerOrAuthenticate creates
\* the user and returns success with is_new true; every later call with the
\* same token returns success with is_new false; every later call with a
\* different token returns INVALID_CREDENTIALS and leaves the stored token
\* and the registered devices unchanged.
C23_AsStated ==
  [][\A userHash \in UserHashes :
       Registers(userHash) =>
         IF ~Has(users, userHash)
         THEN /\ Created(reply')
              /\ Has(users', userHash)
              /\ users'[userHash].token = reply'.request.token
         ELSE IF reply'.request.token = users[userHash].token
         THEN Authenticated(reply')
         ELSE /\ ~reply'.success
              /\ reply'.error = "INVALID_CREDENTIALS"
              /\ SameAccount(userHash)
    ]_vars

\* C23, with the lock of the account: as stated while the account is not
\* locked; while it is locked, a later call returns ACCOUNT_LOCKED whatever
\* its token and changes nothing.  An accepted later call keeps the token
\* and the devices registered so far.  The register route creates the user
\* (is_new true), accepts the same token later (is_new false) and refuses
\* another token, leaving its users as they were.
C23_RegisterOrAuthenticate ==
  [][\A userHash \in UserHashes :
       /\ Registers(userHash) =>
            IF ~Has(users, userHash)
            THEN /\ Created(reply')
                 /\ Has(users', userHash)
                 /\ users'[userHash].token = reply'.request.token
                 /\ Cardinality(users'[userHash].devices) = 1
            ELSE IF Locked(users[userHash])
            THEN RejectedAsLocked(reply') /\ UNCHANGED users
            ELSE IF reply'.request.token = users[userHash].token
            THEN /\ Authenticated(reply')
                 /\ users'[userHash].token = users[userHash].token
                 /\ users[userHash].devices \subseteq users'[userHash].devices
            ELSE /\ ~reply'.success
                 /\ reply'.error = "INVALID_CREDENTIALS"
                 /\ SameAccount(userHash)
       /\ RouteRegisters(userHash) =>
            IF ~Has(memUsers, userHash)
            THEN /\ Created(reply')
                 /\ Has(memUsers', userHash)
                 /\ memUsers'[userHash].verificationToken
                      = reply'.request.token
            ELSE IF reply'.request.token
                      = memUsers[userHash].verificationToken
            THEN /\ Authenticated(reply')
                 /\ memUsers'[userHash].verificationToken
                      = memUsers[userHash].verificationToken
                 /\ memUsers[userHash].devices
                      \subseteq memUsers'[userHash].devices
            ELSE ~reply'.success /\ UNCHANGED memUsers
    ]_vars

\* A user registered from two devices, and a later call with another token
\* was refused as INVALID_CREDENTIALS: the stored token is not the one of
\* that call.
C23_Witness ==
  \E userHash \in UserHashes :
    /\ Has(users, userHash)
    /\ users[userHash].devices = DeviceIds
    /\ reply # NoReply
    /\ reply.request.op = "register_or_auth_user"
    /\ reply.request.userHash = userHash
    /\ reply.request.token # users[userHash].token
    /\ reply.error = "INVALID_CREDENTIALS"

\* ----- properties of the pushes to the remote service (AuthSpec) -----
\* The version of a record: what a device pushes and the server holds.
Version(rec) == [updatedAt |-> rec.updatedAt, data |-> rec.data]

\* The version the server holds of the record of a user, if any: in the
\* tables of the database, or in the maps of the routes.
HeldInTables(user, id) ==
  {Version(row) : row \in {r \in At(tblEntries, id) \cup At(tblReviews, id) :
                             r.user = user}}
HeldInMemory(user, id) ==
  {Version(row) : row \in At(UserData(user).entries, id)
                            \cup At(UserData(user).reviews, id)}
Held(op, user, id) ==
  IF op \in RouteOps THEN HeldInMemory(user, id) ELSE HeldInTables(user, id)

\* The version held after a push: the pushed one if it has the greater
\* updatedAt (or if none was held), the held one otherwise.
Greater(held, rec) ==
  IF \A version \in held : rec.updatedAt > version.updatedAt
  THEN {Version(rec)} ELSE held

\* No step replaces a held version by one that is not newer.
NeverOlder(before, after) ==
  \A version \in before :
    \E later \in after :
      /\ later.updatedAt >= version.updatedAt
      /\ later.updatedAt = version.updatedAt => later = version

\* C24: when devices of the same user push versions of the same record id
\* with different updatedAt values, the server holds the version with the
\* greater updatedAt, in whichever order the pushes arrive and however they
\* interleave with other pushes: every accepted push leaves at its id the
\* greater of the version held and the version pushed, and no step of any
\* caller replaces a held version by an older one.
C24_GreaterUpdatedAtWins ==
  [][/\ \A userHash \in UserHashes, id \in EntryIds \cup ReviewIds :
          /\ NeverOlder(HeldInTables(userHash, id),
                        HeldInTables(userHash, id)')
          /\ NeverOlder(HeldInMemory(userHash, id),
                        HeldInMemory(userHash, id)')
     /\ \A op \in DataOps, userHash \in UserHashes :
          /\ Answered({op}) /\ reply'.success
          /\ reply'.request.userHash = userHash
          => \A id \in EntryIds \cup ReviewIds :
               \A rec \in {r \in reply'.request.records : r.id = id} :
                 Held(op, userHash, id)'
                   = Greater(Held(op, userHash, id), rec)
    ]_vars

\* A push of an older version was accepted after a newer one had arrived:
\* the server holds the newer version.
C24_Witness ==
  /\ reply # NoReply
  /\ reply.request.op \in DataOps
  /\ reply.success
  /\ \E rec \in reply.request.records :
       \E version \in Held(reply.request.op, reply.request.userHash, rec.id) :
         version.updatedAt > rec.updatedAt

SingleOps == {"sync_single_entry_token", "sync_single_entry",
              "route_sync_entry"}

\* C25: sending the same encrypted entry (same id and updatedAt) through
\* the single-record fast path twice, or in two overlapping calls, leaves
\* the server as sending it once does, and the repeated call is acknowledged
\* with synced false.  After every acknowledged call the server holds, at
\* the id, a version whose updatedAt is that of the record or greater (and
\* keeps one, by C24); and a call that arrives when the server holds such a
\* version is acknowledged with synced false and stores nothing.
C25_RepeatedCallStoresNothing ==
  [][\A op \in SingleOps, userHash \in UserHashes :
       /\ Answered({op}) /\ reply'.success
       /\ reply'.request.userHash = userHash
       => \A rec \in reply'.request.records :
            /\ \E version \in Held(op, userHash, rec.id)' :
                 version.updatedAt >= rec.updatedAt
            /\ Greater(Held(op, userHash, rec.id)', rec)
                 = Held(op, userHash, rec.id)'
            /\ (\E version \in Held(op, userHash, rec.id) :
                  version.updatedAt >= rec.updatedAt)
               => /\ ~reply'.synced
                  /\ NothingStored
            /\ Held(op, userHash, rec.id) = {}
               => reply'.synced
    ]_vars

\* The call was acknowledged with synced false for an entry the server
\* already held with the same updatedAt and the same data.
C25_Witness ==
  /\ reply # NoReply
  /\ reply.request.op \in SingleOps
  /\ reply.success /\ ~reply.synced
  /\ \E rec \in reply.request.records :
       Held(reply.request.op, reply.request.userHash, rec.id) = {Version(rec)}

\* ----- properties of the crypto module (CryptoSpec) -----
\* The payload at hand is what encrypt(data, password) returned, unchanged.
EncryptedAs(data, password) ==
  \E salt \in Salts, iv \in Ivs :
    envelope = encryptPayload(data, password, salt, iv)
\* The same for the encrypt of the module before the versions.
Version1EncryptedAs(data, password) ==
  \E salt \in Salts, iv \in Ivs :
    envelope = encryptVersion1(data, password, salt, iv)

OtherPassword ==
  \E data \in Plaintexts, password \in Passwords \ {report.password} :
    EncryptedAs(data, password) \/ Version1EncryptedAs(data, password)

\* The ciphertext of the payload at hand is not the one encrypt() returned.
Altered ==
  ~envelope.ciphertext.valid \/ ~envelope.ciphertext.bytes.intact

DecryptionFailed(value) ==
  value.threw /\ value.error = "DECRYPTION_FAILED" /\ value.value = ""

Profile(version) ==
  IF version \in {0, 1} THEN PBKDF2_ITERATIONS_V1 ELSE PBKDF2_ITERATIONS_V2

\* C28: decrypt derives the key with the iterations selected by the version
\* field of the payload (absent or 1: 100,000; 2 or more: 310,000), never by
\* the current version; encrypt tags each payload with the version whose
\* iterations it used; hence a payload encrypted under version 1 decrypts
\* through the same decrypt as a payload of version 2.
C28_ProfileOfThePayload ==
  /\ report.op = "decrypt" /\ report.error # "InvalidCharacterError" =>
       report.iterations = Profile(envelope.version)
  /\ \A data \in Plaintexts, password \in Passwords :
       EncryptedAs(data, password) \/ Version1EncryptedAs(data, password) =>
         envelope.ciphertext.bytes.key.iterations = Profile(envelope.version)
  /\ \A data \in Plaintexts :
       report.op = "decrypt" /\ Version1EncryptedAs(data, report.password) =>
         ~report.threw /\ report.value = data

\* decrypt() returned the plaintext of a payload of version 1, made with
\* 100,000 iterations.
C28_Witness ==
  /\ report.op = "decrypt"
  /\ ~report.threw
  /\ envelope.version = 1
  /\ report.iterations = PBKDF2_ITERATIONS_V1
  /\ \E data \in Plaintexts :
       Version1EncryptedAs(data, report.password) /\ report.value = data

\* ----- properties of export and import (FileSpec) -----
\* The local stores a device can hold, and the files an encrypted export of
\* them can be.
EntryStores ==
  UNION {[ids -> [updatedAt : Times, content : Devices \cup {"remote"}]] :
           ids \in SUBSET EntryIds}
ReviewStores ==
  UNION {[ids -> [createdAt : Times]] : ids \in SUBSET ReviewIds}
ExportPasswords == {w \in FilePasswords : Len(w) >= MinPasswordLength}
ExportOf(entryStore, reviewStore, password) ==
  {EncryptedExport(ExportData(entryStore, reviewStore, now),
                   password, salt, iv, now) :
     now \in Times, salt \in Salts, iv \in Ivs}
EmptyStore(d) == DOMAIN entries[d] = {} /\ DOMAIN reviews[d] = {}

\* C29: importing, with the password of the export, a file that
\* exportEncryptedSecure returned into an empty local store leaves the store
\* with exactly the entries and reviews that were exported, and throws
\* nothing.
C29_ExportImportRoundTrip ==
  [][\A d \in Devices, password \in ExportPasswords :
       (importData(d, password) /\ EmptyStore(d))
       => \A entryStore \in EntryStores, reviewStore \in ReviewStores :
            bundle \in ExportOf(entryStore, reviewStore, password)
            => /\ entries'[d] = entryStore
               /\ reviews'[d] = reviewStore
               /\ ~report'.threw
               /\ report'.imported = Cardinality(DOMAIN entryStore)
                                     + Cardinality(DOMAIN reviewStore)]_vars

\* An import with the password of the export has refilled a store that was
\* emptied after the export, with an entry and a review.
C29_Witness ==
  /\ report.op = "importData"
  /\ ~report.threw
  /\ report.imported = 2
  /\ report.skipped = 0
  /\ \E d \in Devices : DOMAIN entries[d] # {} /\ DOMAIN reviews[d] # {}

\* The password the file at hand was exported with.
ExportPassword ==
  base64ToUint8Array(Parse(bundle).payload.ciphertext).key.password

\* C30: importData of an encrypted file throws the error that asks for a
\* password when none is given, and the error of a wrong password or a
\* corrupt file when the password is not the one of the export; in both
\* cases the local store is left as it was.
C30_RefusedImportWritesNothing ==
  [][\A d \in Devices, given \in FilePasswords \cup {NoPassword} :
       (importData(d, given) /\ given # ExportPassword)
       => /\ report'.threw
          /\ report'.error =
               IF given = NoPassword
               THEN "Este archivo esta cifrado. Se requiere contrasena."
               ELSE "Contrasena incorrecta o archivo corrupto"
          /\ UNCHANGED <<entries, reviews>>]_vars

\* An import was refused, for no password or for a password that is not the
\* one of the export, on a file that holds an entry, and the store, emptied
\* after the export, is still empty.
Refusal(error) ==
  /\ report.op = "importData"
  /\ report.threw
  /\ report.error = error
  /\ bundle # NoBundle
  /\ Parse(bundle).payload.ciphertext.bytes.key.password # report.password
  /\ Parse(Parse(bundle).payload.ciphertext.bytes.data).entries # {}
  /\ \A d \in Devices : EmptyStore(d)
C30_Witness ==
  \/ Refusal(PasswordRequired) /\ report.password = NoPassword
  \/ Refusal(WrongPasswordOrCorrupt) /\ report.password # NoPassword

\* ----- properties of the Encrypted Record Codec (CodecSpec) -----
\* What the server reads of a wire record: everything but the payload.
Cleartext(sent) == [f \in DOMAIN sent \ {"data"} |-> sent[f]]
CleartextFields == {"id", "date", "type", "periodStart", "updatedAt",
                    "deleted"}
\* Two records that differ at most in the given fields.
SameOutside(one, other, fields) ==
  /\ DOMAIN one \ fields = DOMAIN other \ fields
  /\ \A f \in DOMAIN one \ fields : one[f] = other[f]
EntryEncoded == codec.op = "encryptEntryForSync"
ReviewEncoded == codec.op = "encryptReviewForSync"
SameEntryCleartext(sensitive) ==
  \A other \in FullEntries, salt \in Salts, iv \in Ivs :
    SameOutside(other, codec.record, sensitive)
    => Cleartext(EncryptedSyncEntry(other, codec.password, salt, iv))
       = Cleartext(codec.sent)
SameReviewCleartext(sensitive) ==
  \A other \in FullReviews, salt \in Salts, iv \in Ivs :
    SameOutside(other, codec.record, sensitive)
    => Cleartext(EncryptedSyncReview(other, codec.password, salt, iv))
       = Cleartext(codec.sent)

\* C31: the cleartext part of a wire record holds only the identifier, the
\* date or the period marker and type, updatedAt and the tombstone flag, and
\* two records that differ only in content, tags, habits, highlights, word
\* count, reflection text, goals or creation time have the same cleartext.
C31_AsStated ==
  /\ codec.op # "none" => DOMAIN Cleartext(codec.sent) \subseteq CleartextFields
  /\ EntryEncoded => SameEntryCleartext(EntrySensitive)
  /\ ReviewEncoded => SameReviewCleartext(ReviewSensitive)

\* The part of C31 that holds: the fields of the cleartext, the entries, and
\* the reviews as far as reflection text and goals go.
C31_ButCreatedAtOfReviews ==
  /\ codec.op # "none" => DOMAIN Cleartext(codec.sent) \subseteq CleartextFields
  /\ EntryEncoded => SameEntryCleartext(EntrySensitive)
  /\ ReviewEncoded => SameReviewCleartext(ReviewSensitive \ {"createdAt"})

\* A review was encoded, and a review that differs from it only in its
\* creation time has another cleartext.
C31_Witness ==
  /\ ReviewEncoded
  /\ \E other \in FullReviews :
       /\ SameOutside(other, codec.record, {"createdAt"})
       /\ Cleartext(EncryptedSyncReview(other, codec.password,
                                        "salt1", "iv1"))
          # Cleartext(codec.sent)

\* C32: decoding a wire record of the codec with the password it was encoded
\* with gives back the entry, or the review, field for field.
C32_CodecRoundTrip ==
  /\ (report.op = "decryptEntryFromSync" /\ report.password = codec.password)
     => ~report.threw /\ report.value = codec.record
  /\ (report.op = "decryptReviewFromSync" /\ report.password = codec.password)
     => ~report.threw /\ report.value = codec.record

\* A record without goals, an entry or a review, was encoded and then
\* decoded with the same password.
C32_Witness ==
  /\ report.op \in {"decryptEntryFromSync", "decryptReviewFromSync"}
  /\ report.password = codec.password
  /\ ~report.threw
  /\ "createdAt" \in DOMAIN report.value
  /\ "goals" \notin DOMAIN report.value

\* ----- properties of the timestamps of pushed entries (Spec) -----
\* The step sends entry id of device d to the server: in the batch of sync()
\* or by syncEntry(), answered or not.
PushOf(d, id) ==
  \/ /\ SyncEntries(d) \/ SyncEntriesFail(d)
     /\ id \in LocalEntriesAbove(entries[d], lastSyncAt[d])
  \/ syncEntryOk(d, id)
  \/ syncEntryFail(d, id)
\* createOrUpdateEntry runs on device d.
Saves(d) == UpdateEntry(d) \/ \E id \in EntryIds : CreateEntry(d, id)
Written(d, id) ==
  /\ Has(entries'[d], id)
  /\ ~Has(entries[d], id) \/ entries'[d][id] # entries[d][id]

\* C33: createOrUpdateEntry gives the entry it writes the time of the save
\* as updatedAt; the row a push leaves on the server has the updatedAt of
\* the stored entry, not the time of sending, unless the server keeps the
\* row it had; and pushing again an entry the server already holds with
\* that updatedAt changes nothing, whatever the clock says by then.
C33_UpdatedAtOfTheSave ==
  [][\A d \in Devices :
       /\ Saves(d)
          => \A id \in DOMAIN entries'[d] :
               Written(d, id) => entries'[d][id].updatedAt = clk[d]
       /\ \A id \in DOMAIN entries[d] :
            PushOf(d, id)
            => /\ \/ ~Has(srvEntries', id) /\ ~Has(srvEntries, id)
                  \/ Has(srvEntries, id) /\ Has(srvEntries', id)
                     /\ srvEntries'[id] = srvEntries[id]
                  \/ Has(srvEntries', id)
                     /\ srvEntries'[id].updatedAt = entries[d][id].updatedAt
               /\ (Has(srvEntries, id)
                   /\ srvEntries[id].updatedAt = entries[d][id].updatedAt)
                  => srvEntries'[id] = srvEntries[id]]_vars

\* syncEntry() has just pushed, at a later time of the clock, an entry that
\* a save stamped earlier: the row of the server has the time of the save.
C33_Witness ==
  \E d \in Devices, id \in EntryIds :
    /\ Has(entries[d], id) /\ Has(srvEntries, id)
    /\ srvEntries[id].updatedAt = entries[d][id].updatedAt
    /\ srvEntries[id].data = encrypt([content |-> d], Passphrase)
    /\ entries[d][id].updatedAt < clk[d]
    /\ lastSyncAt[d] = clk[d]

\* ----- properties of the salts and IVs of encrypt() (EncryptSpec) -----
KeyAndIv(sealed) ==
  <<base64ToUint8Array(sealed.ciphertext).key,
    base64ToUint8Array(sealed.ciphertext).iv>>
InputOf(sealed) ==
  <<base64ToUint8Array(sealed.ciphertext).data,
    base64ToUint8Array(sealed.ciphertext).key.password>>

NewerReviews(d) ==
  {id \in DOMAIN inflight[d].resp :
     /\ CanDecrypt(inflight[d].resp[id].data, Passphrase)
     /\ Has(reviews[d], id)
     /\ inflight[d].resp[id].updatedAt > reviews[d][id].createdAt}

\* C35 as stated: in a full sync a returned review with a greater updatedAt
\* than the local review of its id replaces that review, or deletes it if
\* the tombstone flag is set.
C35_AsStated ==
  [][\A d \in Devices : SyncFinish(d) =>
       \A id \in NewerReviews(d) :
         IF inflight[d].resp[id].deleted
         THEN ~Has(reviews'[d], id)
         ELSE /\ Has(reviews'[d], id)
              /\ reviews'[d][id] =
                   decryptReviewFromSync(inflight[d].resp[id], Passphrase)]_vars

\* sync() holds a returned review, not a tombstone, that is newer than the
\* local review of its id and differs from it, and the loop over the
\* returned reviews is about to run.
C35_Witness ==
  \E d \in Devices :
    /\ pc[d] = "reviews"
    /\ \E id \in NewerReviews(d) :
         /\ ~inflight[d].resp[id].deleted
         /\ decryptReviewFromSync(inflight[d].resp[id], Passphrase)
            # reviews[d][id]

\* ----- properties of the cursor (Spec) -----
\* C36 as stated: while the device stays set up, no step of sync() or
\* syncEntry() makes the stored lastSyncAt smaller.
C36_AsStated ==
  [][\A d \in Devices : lastSyncAt'[d] >= lastSyncAt[d]]_vars

\* sync() is about to save the time of the server as the cursor, and the
\* cursor that syncEntry() stored from the device's clock is greater.
C36_Witness ==
  \E d \in Devices :
    /\ pc[d] = "reviews"
    /\ NewCursor(inflight[d].serverTime, clk[d]) < lastSyncAt[d]

\* ----- properties of the conflict count (Spec) -----
\* The step of sync() that merges the returned entries and counts.
MergesEntries(d) == SyncReviews(d) \/ SyncReviewsFail(d)

\* C37: when no local save happened between the collection of the local
\* changes and the merge, no returned entry that the passphrase opens is
\* older than its local copy, and the sync counts no conflict.
C37_NoConflictWithoutSave ==
  [][\A d \in Devices : (MergesEntries(d) /\ ~touched[d]) =>
       /\ \A id \in DOMAIN inflight[d].resp :
            (CanDecrypt(inflight[d].resp[id].data, Passphrase)
             /\ Has(entries[d], id))
            => inflight[d].resp[id].updatedAt >= entries[d][id].updatedAt
       /\ inflight'[d].conflicts = 0]_vars

\* sync() is about to merge, no save happened since it collected, and the
\* answer holds an entry whose local copy, saved after clock 1, was above the
\* cursor: it was pushed in this exchange and the server took it.
C37_Witness ==
  \E d \in Devices :
    /\ pc[d] = "entries"
    /\ ~touched[d]
    /\ \E id \in DOMAIN inflight[d].resp :
         /\ Has(entries[d], id)
         /\ entries[d][id].updatedAt > inflight[d].cursor
         /\ entries[d][id].updatedAt > 1
         /\ inflight[d].pushed > 0
         /\ inflight[d].resp[id].updatedAt = entries[d][id].updatedAt

\* ----- properties of the entries of one day (ClientSpec) -----
\* C38 as stated: the local store never holds two entries with the same
\* date (all entries of the model have the date of one day).
C38_AsStated ==
  \A d \in Devices : Cardinality(DOMAIN entries[d]) <= 1

\* The store holds the entry that createOrUpdateEntry wrote on the device and
\* an entry of the same day that a full sync took over from another device.
C38_Witness ==
  \E d \in Devices, own \in EntryIds, other \in RemoteIds \ EntryIds :
    /\ Has(entries[d], own) /\ entries[d][own].content = d
    /\ Has(entries[d], other) /\ entries[d][other].content = "remote"

\* ----- properties of a repeated import (FileSpec) -----
\* What the file holds for the password that opens it.
BundleData(password) ==
  Parse(decryptPayload(Parse(bundle).payload, password).value)
\* The entries of the file that are not newer than the local entry of
\* their id.
NotNewer(d, data) ==
  {item \in data.entries :
     /\ Has(entries[d], item.id)
     /\ item.record.updatedAt <= entries[d][item.id].updatedAt}
\* An import that did not throw.
Imports(d, password) == importData(d, password) /\ ~report'.threw

\* C39: an import replaces no local entry by an entry of the file whose
\* updatedAt is less than or equal to the local one, and counts exactly
\* those entries as skipped and every other entry of the file as imported;
\* importing the same file again, into the store as the import left it,
\* imports nothing and leaves the entries and the reviews as they are.
C39_SkipsAndRepeats ==
  [][\A d \in Devices, password \in ExportPasswords :
       Imports(d, password)
       => LET data == BundleData(password)
              again == importPlaintext(entries'[d], reviews'[d], data)
              added == {item \in data.reviews : ~Has(reviews[d], item.id)}
          IN /\ \A item \in NotNewer(d, data) :
                  entries'[d][item.id] = entries[d][item.id]
             /\ report'.skipped = Cardinality(NotNewer(d, data))
             /\ report'.imported
                  = Cardinality(data.entries \ NotNewer(d, data))
                    + Cardinality(added)
             /\ again.imported = 0
             /\ again.entries = entries'[d]
             /\ again.reviews = reviews'[d]]_vars

\* A file with an entry and a review was imported into a store that holds
\* them already: nothing was imported and the entry was skipped.
C39_Witness ==
  /\ report.op = "importData"
  /\ ~report.threw
  /\ report.imported = 0
  /\ report.skipped = 1
  /\ bundle # NoBundle
  /\ Parse(Parse(bundle).payload.ciphertext.bytes.data).reviews # {}
  /\ \E d \in Devices : DOMAIN entries[d] # {} /\ DOMAIN reviews[d] # {}

====
